---- MODULE Spec2Model ----
(***************************************************************************)
(* A model of trimesh/exchange/gltf.py: the GLTF 2.0 / GLB codec.          *)
(*                                                                         *)
(* Bytes are naturals 0..255 and a bytes object is a sequence of them.     *)
(* A numpy array of uint32 or float32 is a sequence of 32-bit patterns,    *)
(* an array of uint8 a sequence of bytes; tobytes() is the little-endian   *)
(* encoding of the elements in order.                                      *)
(***************************************************************************)
EXTENDS Integers, Sequences, FiniteSets, TLC

VARIABLES
    pc,              \* which call has run: see the specifications below
    passed,          \* include_normals as the caller of the export function
                     \* gives it, "unset" when the caller leaves it out
    scene,           \* history: the geometries of scene.geometry met so far
    include_normals, \* include_normals as _create_gltf_structure receives it
    tree,            \* the GLTF header tree built by _create_gltf_structure
    buffer_items,    \* the list of byte blobs built beside it
    acc_data,        \* history: the array bytes handed over with each accessor
    img_data,        \* history: the encoded bytes handed over with each image
    exported,        \* the bytes returned by export_glb
    files,           \* the {name : data} mapping returned by export_gltf
    file_obj,        \* the stream handed to load_glb
    start,           \* file_obj.tell() when load_glb is called
    loaded,          \* what load_glb did with file_obj
    data,            \* the argument of a direct _byte_pad call
    bound,           \* its boundary
    result,          \* its return value
    rb_header,       \* `header` of _read_buffers: the layout it is handed
    rb_views,        \* `views` of _read_buffers: the bytes of the buffer views
    resolver,        \* the resolver: the bytes it has for each name
    images,          \* _parse_materials: the image of each header image
    materials,       \* _parse_materials: the materials it returns
    meshes,          \* _read_buffers: geometry name -> mesh kwargs
    mesh_prim,       \* _read_buffers: mesh index -> its geometry names
    names,           \* _read_buffers: the frame names
    base_frame,      \* _read_buffers: the name of the base frame
    queue,           \* _read_buffers: the pairs still to visit
    graph            \* _read_buffers: the edges emitted

exportVars == <<passed, scene, include_normals, tree, buffer_items, acc_data,
                img_data, exported, files>>
loadVars == <<file_obj, start, loaded>>
padVars == <<data, bound, result>>
readVars == <<rb_header, rb_views, resolver, images, materials, meshes, mesh_prim,
              names, base_frame, queue, graph>>

vars == <<pc, exportVars, loadVars, padVars, readVars>>

-----------------------------------------------------------------------------
(* Bounds of the model *)

\* the longest byte string handed to _byte_pad directly
MaxLen == 5
\* the most geometries in an exported scene
MaxGeoms == 2
\* the most vertices of a mesh, or of the line list of a path
MaxVerts == 2
\* the most faces of a mesh
MaxFaces == 1
\* the longest encoded image, in bytes
MaxImgLen == 4
\* the most chunks after the JSON chunk of a stream handed to load_glb
MaxChunks == 2
\* the most bytes missing at the end of such a stream
MaxCut == 9
\* the most nodes of a header handed to _read_buffers
MaxNodes == 3
\* the most meshes of a header whose geometry names are read
MaxMeshes == 2
\* the most images of a header whose materials are read
MaxImages == 2
\* the loop over the queue is followed until the graph has this many edges:
\* more than any forest of MaxNodes nodes gives
MaxGraph == 3 * MaxNodes + 3

-----------------------------------------------------------------------------
(* Byte strings *)

SPACE == 32

\* the sum of the lengths of the first n of a list of byte strings
RECURSIVE SumLen(_, _)
SumLen(items, n) ==
    IF n = 0 THEN 0 ELSE SumLen(items, n - 1) + Len(items[n])

\* items[lo] \o ... \o items[hi], by halves
RECURSIVE JoinRange(_, _, _)
JoinRange(items, lo, hi) ==
    IF lo > hi THEN <<>>
    ELSE IF lo = hi THEN items[lo]
    ELSE LET mid == (lo + hi) \div 2
         IN JoinRange(items, lo, mid) \o JoinRange(items, mid + 1, hi)

\* bytes().join(items)
Join(items) == JoinRange(items, 1, Len(items))

\* s[a:b] for 0 <= a and 0 <= b, as Python slices: clipped to the string
Slice(s, a, b) ==
    LET hi == IF b < Len(s) THEN b ELSE Len(s)
    IN IF a >= hi THEN <<>> ELSE SubSeq(s, a + 1, hi)

\* n spaces: (' ' * n).encode('utf-8')
Spaces(n) == [i \in 1..n |-> SPACE]

\* one "<u4" element as four little-endian bytes
U32Bytes(n) ==
    <<n % 256, (n \div 256) % 256, (n \div 65536) % 256, (n \div 16777216) % 256>>

\* np.array(seq, dtype="<u4").tobytes(), and astype(float32).tobytes() of
\* an array given by its 32-bit patterns
U32ArrayBytes(seq) == Join([i \in 1..Len(seq) |-> U32Bytes(seq[i])])

\* np.frombuffer(b, dtype="<u4")[k] for the k-th (from 0) element of b
U32At(b, k) ==
    b[4 * k + 1] + 256 * b[4 * k + 2] + 65536 * b[4 * k + 3] + 16777216 * b[4 * k + 4]

-----------------------------------------------------------------------------
(* _byte_pad *)

\* a padding that always adds bound - len % bound bytes, aligned input included
BytePadAlways(data_, bound_) ==
    data_ \o Spaces(bound_ - (Len(data_) % bound_))

\* a padding that adds nothing
BytePadNone(data_, bound_) == data_

\* what a call that raises ValueError yields in place of bytes
PadError == <<-1>>

_byte_pad(data_, bound_) ==
    IF Len(data_) % bound_ # 0
    THEN LET count == bound_ - (Len(data_) % bound_)
             pad == Spaces(count)
             res == data_ \o pad
         IN IF Len(res) % bound_ # 0 THEN PadError ELSE res
    ELSE data_

-----------------------------------------------------------------------------
(* The scenes that are exported *)

TexKeys == {"baseColorTexture", "emissiveTexture", "normalTexture",
            "occlusionTexture", "metallicRoughnessTexture"}

\* image_mapping, in the order the dict is written
TexKeyOrder == <<"baseColorTexture", "emissiveTexture", "normalTexture",
                 "occlusionTexture", "metallicRoughnessTexture">>

\* a texture slot of a material: None, an object that is no PIL image
\* (it has no `format`), or a PIL image with its format, the length of its
\* encoding, and whether img.save succeeds
NoImage == [kind |-> "None", format |-> "None", size |-> 0]
NotAnImage == [kind |-> "other", format |-> "None", size |-> 0]
Unsavable == [kind |-> "broken", format |-> "PNG", size |-> 0]
PilImage(fmt, n) == [kind |-> "pil", format |-> fmt, size |-> n]

NoTextures == [k \in TexKeys |-> NoImage]

\* a PBRMaterial: which factors are set to exportable values, and the slots
Material(bcf, ef, mf, rf, tex) ==
    [baseColorFactor |-> bcf, emissiveFactor |-> ef, metallicFactor |-> mf,
     roughnessFactor |-> rf, tex |-> tex]

Materials ==
    {Material(TRUE, TRUE, TRUE, TRUE, NoTextures),
     Material(FALSE, FALSE, FALSE, FALSE, NoTextures),
     Material(TRUE, TRUE, TRUE, TRUE,
              [NoTextures EXCEPT !["baseColorTexture"] = PilImage("JPEG", 3),
                                 !["normalTexture"] = PilImage("PNG", 2)])}
    \cup {Material(TRUE, TRUE, TRUE, TRUE,
                   [NoTextures EXCEPT !["baseColorTexture"] = PilImage("PNG", n)])
            : n \in 1..MaxImgLen}
    \cup {Material(TRUE, TRUE, TRUE, TRUE,
                   [NoTextures EXCEPT !["baseColorTexture"] = i])
            : i \in {NotAnImage, Unsavable}}

NoMaterial == Material(FALSE, FALSE, FALSE, FALSE, NoTextures)

\* a Trimesh: vertex and face counts, visual.kind, whether visual.uv has
\* shape (len(vertices), 2), the material of a TextureVisuals, and whether
\* 'vertex_normals' is in mesh._cache.cache
Trimesh(nv, nf, kind, uv, mat, cached) ==
    [class |-> "Trimesh", nv |-> nv, nf |-> nf, kind |-> kind, uv |-> uv,
     material |-> mat, cached |-> cached]

\* a Path2D or Path3D, by the number of vertices of its line list
Path(n) ==
    [class |-> "Path", nv |-> n, nf |-> 0, kind |-> "None", uv |-> FALSE,
     material |-> NoMaterial, cached |-> FALSE]

Geometries ==
    {Trimesh(nv, 1, "None", FALSE, NoMaterial, FALSE) : nv \in 1..MaxVerts}
    \cup {Trimesh(1, nf, "None", FALSE, NoMaterial, FALSE) : nf \in 1..MaxFaces}
    \cup {Trimesh(1, 1, k, FALSE, NoMaterial, FALSE) : k \in {"vertex", "face"}}
    \cup {Trimesh(1, 1, "None", FALSE, NoMaterial, TRUE)}
    \cup {Trimesh(1, 1, "texture", TRUE, m, FALSE) : m \in Materials}
    \cup {Trimesh(MaxVerts, 1, "texture", u, Material(TRUE, TRUE, TRUE, TRUE, NoTextures), FALSE)
            : u \in BOOLEAN}
    \cup {Path(n) : n \in {1, MaxVerts}}

\* the arrays of the g-th geometry of a scene, as element sequences
Pattern(base, g, n) == [i \in 1..n |-> base + 64 * g + i]

\* mesh.faces, flat: indices into the vertices
Faces(mesh) == [i \in 1..(3 * mesh.nf) |-> (i - 1) % mesh.nv]
\* mesh.vertices, flat, as float32 patterns
Vertices(mesh, g) == Pattern(1065353216, g, 3 * mesh.nv)
\* mesh.visual.vertex_colors, flat, RGBA
VertexColors(mesh, g) == [i \in 1..(4 * mesh.nv) |-> (128 + 16 * g + i) % 256]
\* mesh.visual.uv with v flipped, flat, as float32 patterns
FlippedUV(mesh, g) == Pattern(1056964608, g, 2 * mesh.nv)
\* mesh.vertex_normals, flat, as float32 patterns
VertexNormals(mesh, g) == Pattern(1073741824, g, 3 * mesh.nv)

\* the bytes img.save writes
ImageBytes(img, save_as, g) ==
    [i \in 1..img.size |-> IF save_as = "JPEG" THEN 200 + g ELSE 100 + g]

\* rendering.path_to_vertexlist(path): (count, mode, group, indices,
\* (format, vertex data), colors); the count and the vertex data are used
path_to_vertexlist(path, g) ==
    [count |-> path.nv, vertices |-> Pattern(1082130432, g, 3 * path.nv)]

-----------------------------------------------------------------------------
(* _create_gltf_structure and what it calls *)

\* the tree before any geometry is added; `buffers` and `bufferViews` are
\* set by the export functions
EmptyTree ==
    [accessors |-> <<>>, meshes |-> <<>>, images |-> <<>>, textures |-> <<>>,
     materials |-> <<>>, buffers |-> <<>>, bufferViews |-> <<>>]

\* the tree, the blobs and the histories while a scene is exported; `raised`
\* once an exception has left a call
Building(t, b, a, i) ==
    [tree |-> t, buffer_items |-> b, acc_data |-> a, img_data |-> i, raised |-> FALSE]

\* tree["meshes"][-1]["primitives"][0], keys that are absent are None
Primitive(position, indices, mode, material) ==
    [POSITION |-> position, indices |-> indices, mode |-> mode,
     material |-> material, COLOR_0 |-> -1, TEXCOORD_0 |-> -1, NORMAL |-> -1]

\* an accessor is registered with the index of the next blob, then the blob
\* is appended: the bufferView of the wrong blob when the order is swapped
AccessorAfterBlob(st, componentType, count, type, bytes) ==
    [st EXCEPT
        !.buffer_items = Append(@, _byte_pad(bytes, 4)),
        !.tree.accessors = Append(@, [bufferView |-> Len(st.buffer_items) + 1,
                                      componentType |-> componentType,
                                      count |-> count,
                                      type |-> type]),
        !.acc_data = Append(@, bytes)]

\* tree["accessors"].append({"bufferView": len(buffer_items), ...}) followed
\* by buffer_items.append(_byte_pad(bytes))
AccessorThenBlob(st, componentType, count, type, bytes) ==
    [st EXCEPT
        !.tree.accessors = Append(@, [bufferView |-> Len(st.buffer_items),
                                      componentType |-> componentType,
                                      count |-> count,
                                      type |-> type]),
        !.buffer_items = Append(@, _byte_pad(bytes, 4)),
        !.acc_data = Append(@, bytes)]

\* _append_image: the state after the call and the index it returns (-1 for
\* None)
_append_image(st, img, g) ==
    IF img.kind = "other"
    THEN [st |-> st, index |-> -1]
    ELSE IF img.kind = "broken"
    THEN [st |-> [st EXCEPT !.raised = TRUE], index |-> -1]
    ELSE
    LET save_as == IF img.format = "JPEG" THEN "JPEG" ELSE "png"
        bytes == ImageBytes(img, save_as, g)
        mime == IF save_as = "JPEG" THEN "image/jpeg" ELSE "image/png"
        after == [st EXCEPT
                    !.tree.images = Append(@, [bufferView |-> Len(st.buffer_items),
                                               mimeType |-> mime]),
                    !.buffer_items = Append(@, _byte_pad(bytes, 4)),
                    !.img_data = Append(@, bytes)]
    IN [st |-> after, index |-> Len(after.tree.images) - 1]

\* the loop of _append_material over image_mapping, from its k-th key: the
\* state and the texture references put into pbr
RECURSIVE AppendTextures(_, _, _, _, _)
AppendTextures(st, mat, g, k, refs) ==
    IF k > Len(TexKeyOrder) \/ st.raised
    THEN [st |-> st, refs |-> refs]
    ELSE LET key == TexKeyOrder[k]
             img == mat.tex[key]
         IN IF img.kind = "None"
            THEN AppendTextures(st, mat, g, k + 1, refs)
            ELSE LET r == _append_image(st, img, g)
                 IN IF r.index # -1
                    THEN AppendTextures(
                           [r.st EXCEPT !.tree.textures =
                               Append(@, [source |-> r.index, sampler |-> 0])],
                           mat, g, k + 1,
                           refs @@ (key :> Len(r.st.tree.textures)))
                    ELSE AppendTextures(r.st, mat, g, k + 1, refs)

\* pbr_subset: the keys moved under "pbrMetallicRoughness"
pbr_subset == {"baseColorTexture", "baseColorFactor", "roughnessFactor",
               "metallicRoughnessTexture"}

\* a function restricted to the keys in S
Restrict(f, S) == [k \in (DOMAIN f) \cap S |-> f[k]]

_append_material(st, mat, g) ==
    LET factors == {k \in {"baseColorFactor", "emissiveFactor",
                           "metallicFactor", "roughnessFactor"} : mat[k]}
        r == AppendTextures(st, mat, g, 1, <<>>)
        \* factor values are not told apart: -2 stands for any of them
        pbr == [k \in factors |-> -2] @@ r.refs
        record == [top |-> Restrict(pbr, (DOMAIN pbr) \ pbr_subset),
                   pbrMetallicRoughness |-> Restrict(pbr, pbr_subset)]
    IN IF r.st.raised
       THEN r.st
       ELSE [r.st EXCEPT !.tree.materials = Append(@, record)]

\* _default_material, in the same shape
_default_material ==
    [top |-> <<>>,
     pbrMetallicRoughness |-> [k \in {"baseColorFactor", "metallicFactor",
                                      "roughnessFactor"} |-> -2]]

\* the last primitive of tree["meshes"] with one attribute set
SetAttribute(st, key, value) ==
    [st EXCEPT !.tree.meshes[Len(st.tree.meshes)][key] = value]

_append_mesh(st, mesh, g, inc) ==
    LET s0 == [st EXCEPT !.tree.meshes = Append(@,
                   Primitive(Len(st.tree.accessors) + 1, Len(st.tree.accessors), 4, -1))]
        s1 == AccessorThenBlob(s0, 5125, mesh.nf * 3, "SCALAR",
                               U32ArrayBytes(Faces(mesh)))
        s2 == AccessorThenBlob(s1, 5126, mesh.nv, "VEC3",
                               U32ArrayBytes(Vertices(mesh, g)))
        s3 == IF mesh.kind \in {"vertex", "face"}
              THEN AccessorThenBlob(
                     SetAttribute(s2, "COLOR_0", Len(s2.tree.accessors)),
                     5121, mesh.nv, "VEC4", VertexColors(mesh, g))
              ELSE IF mesh.kind = "texture"
              THEN LET m == _append_material(
                              SetAttribute(s2, "material", Len(s2.tree.materials)),
                              mesh.material, g)
                   IN IF m.raised \/ ~mesh.uv
                      THEN m
                      ELSE AccessorThenBlob(
                             SetAttribute(m, "TEXCOORD_0", Len(m.tree.accessors)),
                             5126, mesh.nv, "VEC2", U32ArrayBytes(FlippedUV(mesh, g)))
              ELSE s2
    IN IF s3.raised
       THEN s3
       ELSE IF inc = "True" \/ (inc = "None" /\ mesh.cached)
       THEN AccessorThenBlob(
              SetAttribute(s3, "NORMAL", Len(s3.tree.accessors)),
              5126, mesh.nv, "VEC3", U32ArrayBytes(VertexNormals(mesh, g)))
       ELSE s3

_append_path(st, path, g) ==
    LET vxlist == path_to_vertexlist(path, g)
        s0 == [st EXCEPT !.tree.meshes = Append(@,
                   Primitive(Len(st.tree.accessors), -1, 1, Len(st.tree.materials)))]
        s1 == [s0 EXCEPT
                 !.tree.accessors = Append(@, [bufferView |-> Len(s0.buffer_items),
                                               componentType |-> 5126,
                                               count |-> vxlist.count,
                                               type |-> "VEC3"]),
                 !.tree.materials = Append(@, _default_material),
                 !.buffer_items = Append(@, _byte_pad(U32ArrayBytes(vxlist.vertices), 4)),
                 !.acc_data = Append(@, U32ArrayBytes(vxlist.vertices))]
    IN s1

-----------------------------------------------------------------------------
(* JSON text of the layout part of a tree: buffers, bufferViews, accessors  *)
(* and images. json.dumps writes numbers in decimal, ASCII only, with no    *)
(* trailing whitespace; json.loads accepts whitespace around the value and  *)
(* nothing else.  The text written here is "{" n, n, ... "}".               *)

LBRACE == 123
RBRACE == 125
COMMA == 44
ZERO == 48

ShapeCodes == <<"SCALAR", "VEC2", "VEC3", "VEC4", "MAT2", "MAT3", "MAT4">>
ShapeCode(type) == CHOOSE i \in 1..Len(ShapeCodes) : ShapeCodes[i] = type

RECURSIVE Digits(_)
Digits(n) == IF n < 10 THEN <<ZERO + n>> ELSE Digits(n \div 10) \o <<ZERO + (n % 10)>>

\* the numbers in decimal, separated by commas
NumberList(nums) ==
    Join([i \in 1..Len(nums) |->
            IF i = 1 THEN Digits(nums[i]) ELSE <<COMMA>> \o Digits(nums[i])])

Flatten(seqs) == Join(seqs)

\* the numbers of the layout, each list preceded by its length
LayoutNumbers(t) ==
    <<Len(t.buffers)>>
    \o [i \in 1..Len(t.buffers) |-> t.buffers[i].byteLength]
    \o <<Len(t.bufferViews)>>
    \o Flatten([i \in 1..Len(t.bufferViews) |->
                  <<t.bufferViews[i].buffer, t.bufferViews[i].byteOffset,
                    t.bufferViews[i].byteLength>>])
    \o <<Len(t.accessors)>>
    \o Flatten([i \in 1..Len(t.accessors) |->
                  <<t.accessors[i].bufferView, t.accessors[i].componentType,
                    t.accessors[i].count, ShapeCode(t.accessors[i].type)>>])
    \o <<Len(t.images)>>
    \o [i \in 1..Len(t.images) |-> t.images[i].bufferView]

\* json.dumps(tree)
json_dumps(t) == <<LBRACE>> \o NumberList(LayoutNumbers(t)) \o <<RBRACE>>

\* text without its trailing whitespace
StripRight(text) ==
    LET solid == {i \in 1..Len(text) : text[i] # SPACE}
        last == IF solid = {} THEN 0 ELSE CHOOSE i \in solid : \A j \in solid : j <= i
    IN SubSeq(text, 1, last)

\* the positions of the commas of text[lo..hi], in order, by halves
RECURSIVE CommaPositions(_, _, _)
CommaPositions(text, lo, hi) ==
    IF lo > hi THEN <<>>
    ELSE IF lo = hi THEN (IF text[lo] = COMMA THEN <<lo>> ELSE <<>>)
    ELSE LET mid == (lo + hi) \div 2
         IN CommaPositions(text, lo, mid) \o CommaPositions(text, mid + 1, hi)

\* the number written in text[lo..hi], -1 when it is not a decimal
RECURSIVE DecimalValue(_, _, _)
DecimalValue(text, lo, hi) ==
    IF lo > hi \/ text[hi] < ZERO \/ text[hi] > ZERO + 9 THEN -1
    ELSE IF lo = hi THEN text[hi] - ZERO
    ELSE LET front == DecimalValue(text, lo, hi - 1)
         IN IF front = -1 THEN -1 ELSE 10 * front + (text[hi] - ZERO)

\* the numbers of a comma-separated list of decimals, <<-1>> when text is
\* not one
ParseNumbers(text) ==
    LET commas == CommaPositions(text, 1, Len(text))
        nums == [k \in 1..(Len(commas) + 1) |->
                    DecimalValue(text,
                                 IF k = 1 THEN 1 ELSE commas[k - 1] + 1,
                                 IF k = Len(commas) + 1 THEN Len(text) ELSE commas[k] - 1)]
    IN IF \E k \in 1..Len(nums) : nums[k] = -1 THEN <<-1>> ELSE nums

\* the k-th group of `width` numbers after position `at`
Group(nums, at, width, k) == SubSeq(nums, at + width * (k - 1) + 1, at + width * k)

JsonError == [ok |-> FALSE, buffers |-> <<>>, bufferViews |-> <<>>,
              accessors |-> <<>>, images |-> <<>>]

\* json.loads(text): the layout read back, or not ok when text is no JSON
json_loads(text) ==
    LET t == StripRight(text)
    IN IF Len(t) < 2 \/ t[1] # LBRACE \/ t[Len(t)] # RBRACE
       THEN JsonError
       ELSE
       LET nums == ParseNumbers(SubSeq(t, 2, Len(t) - 1))
           n == Len(nums)
           nb == nums[1]
           pv == 1 + nb + 1
           nv == nums[pv]
           pa == pv + 3 * nv + 1
           na == nums[pa]
           pi == pa + 4 * na + 1
           ni == nums[pi]
       IN IF nums = <<-1>> \/ n < pv \/ n < pa \/ n < pi \/ n # pi + ni
          THEN JsonError
          ELSE [ok |-> TRUE,
                buffers |-> [i \in 1..nb |-> [byteLength |-> nums[1 + i]]],
                bufferViews |-> [i \in 1..nv |->
                    LET v == Group(nums, pv, 3, i)
                    IN [buffer |-> v[1], byteOffset |-> v[2], byteLength |-> v[3]]],
                accessors |-> [i \in 1..na |->
                    LET a == Group(nums, pa, 4, i)
                    IN [bufferView |-> a[1], componentType |-> a[2],
                        count |-> a[3], type |-> ShapeCodes[a[4]]]],
                images |-> [i \in 1..ni |-> [bufferView |-> nums[pi + i]]]]

\* the layout part of a tree, as json_loads returns it
Layout(t) ==
    [ok |-> TRUE, buffers |-> t.buffers, bufferViews |-> t.bufferViews,
     accessors |-> t.accessors,
     images |-> [i \in 1..Len(t.images) |-> [bufferView |-> t.images[i].bufferView]]]

-----------------------------------------------------------------------------
(* export_glb and export_gltf *)

\* _magic
MagicGltf == 1179937895
MagicJson == 1313821514
MagicBin == 5130562

\* views whose offset is advanced before it is recorded
GlbViewsOffsetAfter(items) ==
    [i \in 1..Len(items) |->
        [buffer |-> 0, byteOffset |-> SumLen(items, i), byteLength |-> Len(items[i])]]

\* the views of export_glb: one per blob, at the running offset
GlbViews(items) ==
    [i \in 1..Len(items) |->
        [buffer |-> 0, byteOffset |-> SumLen(items, i - 1), byteLength |-> Len(items[i])]]

\* the JSON chunk padded only when it is not aligned yet, and with NUL bytes
ContentPadNul(text) ==
    text \o [i \in 1..((4 - (Len(text) % 4)) % 4) |-> 0]

\* content += (4 - ((len(content) + 20) % 4)) * " "
ContentPad(text) ==
    text \o Spaces(4 - ((Len(text) + 20) % 4))

\* a header whose length field leaves out the 8 bytes of the binary chunk header
GlbHeaderShort(content, buffer_data) ==
    _byte_pad(U32ArrayBytes(<<MagicGltf, 2, Len(content) + Len(buffer_data) + 20,
                              Len(content), 1313821514>>), 4)

\* the 20-byte header of the file
GlbHeader(content, buffer_data) ==
    _byte_pad(U32ArrayBytes(<<MagicGltf, 2, Len(content) + Len(buffer_data) + 28,
                              Len(content), 1313821514>>), 4)

\* export_glb after _create_gltf_structure: the tree as completed and the
\* bytes returned
export_glb(t, items) ==
    LET views == GlbViews(items)
        buffer_data == Join(items)
        t2 == [t EXCEPT !.buffers = <<[byteLength |-> Len(buffer_data)]>>,
                        !.bufferViews = views]
        content == ContentPad(json_dumps(t2))
        header == GlbHeader(content, buffer_data)
        bin_header == _byte_pad(U32ArrayBytes(<<Len(buffer_data), 5130562>>), 4)
    IN [tree |-> t2,
        exported |-> Join(<<header, content, bin_header, buffer_data>>)]

\* a buffer file that joins the blob before i and blob i
BufferFileBefore(items, i) ==
    _byte_pad(Join(SubSeq(items, IF i > 1 THEN i - 1 ELSE 1, i)), 4)

\* buffer_data of the i-th (from 1) blob in export_gltf:
\* _byte_pad(bytes().join(buffer_items[i: i + 2]))
BufferFile(items, i) ==
    _byte_pad(Join(SubSeq(items, i, IF i + 1 <= Len(items) THEN i + 1 ELSE Len(items))), 4)

\* an export whose views declare the length of the buffer file
ExportGltfViewOfFile(t, items) ==
    LET bins == [i \in 1..Len(items) |-> BufferFile(items, i)]
    IN [tree |-> [t EXCEPT
                    !.buffers = [i \in 1..Len(items) |->
                                    [uri |-> i - 1, byteLength |-> Len(bins[i])]],
                    !.bufferViews = [i \in 1..Len(items) |->
                                    [buffer |-> i - 1, byteOffset |-> 0,
                                     byteLength |-> Len(bins[i])]]],
        files |-> bins]

\* export_gltf after _create_gltf_structure: the tree as completed and the
\* buffer files, the i-th being "gltf_buffer_<i-1>.bin"
export_gltf(t, items) ==
    LET views == [i \in 1..Len(items) |->
                    [buffer |-> i - 1, byteOffset |-> 0, byteLength |-> Len(items[i])]]
        bins == [i \in 1..Len(items) |-> BufferFile(items, i)]
        buffers == [i \in 1..Len(items) |-> [uri |-> i - 1, byteLength |-> Len(bins[i])]]
    IN [tree |-> [t EXCEPT !.buffers = buffers, !.bufferViews = views],
        files |-> bins]

-----------------------------------------------------------------------------
(* load_glb and the start of _read_buffers *)

\* np.dtype(_dtypes[componentType]).itemsize
ItemSize(componentType) ==
    CASE componentType = 5120 -> 1
      [] componentType = 5121 -> 1
      [] componentType = 5122 -> 2
      [] componentType = 5123 -> 2
      [] componentType = 5125 -> 4
      [] componentType = 5126 -> 4

\* np.abs(np.product(_shapes[type]))
PerCount(type) ==
    CASE type = "SCALAR" -> 1
      [] type = "VEC2" -> 2
      [] type = "VEC3" -> 3
      [] type = "VEC4" -> 4
      [] type = "MAT2" -> 4
      [] type = "MAT3" -> 9
      [] type = "MAT4" -> 16

\* what a load has done: whether it returned or raised, the header and the
\* buffers it read, the views and accessor bytes cut from them, the position
\* of the stream at the end, and whether the chunk loop ended at its break
Loaded(status, error, header, buffers, views, access, pos, broke) ==
    [status |-> status, error |-> error, header |-> header, buffers |-> buffers,
     views |-> views, access |-> access, pos |-> pos, broke |-> broke]

NotLoaded == Loaded("none", "", JsonError, <<>>, <<>>, <<>>, 0, FALSE)

\* the first loop of _read_buffers: the bytes of every view, <<-1>> for a
\* view whose buffer is missing or too short (IndexError, AssertionError)
ReadViews(header, buffers) ==
    [i \in 1..Len(header.bufferViews) |->
        LET view == header.bufferViews[i]
            end == view.byteOffset + view.byteLength
        IN IF view.buffer >= Len(buffers)
           THEN <<-1>>
           ELSE LET cut == Slice(buffers[view.buffer + 1], view.byteOffset, end)
                IN IF Len(cut) # view.byteLength THEN <<-1>> ELSE cut]

\* the second loop of _read_buffers: the bytes of every accessor, <<-1>>
\* when they cannot be shaped as (count, per_item)
ReadAccessors(header, views) ==
    [i \in 1..Len(header.accessors) |->
        LET a == header.accessors[i]
            length == ItemSize(a.componentType) * a.count * PerCount(a.type)
        IN IF a.bufferView >= Len(views)
           THEN <<-1>>
           ELSE LET cut == Slice(views[a.bufferView + 1], 0, length)
                IN IF Len(cut) # length THEN <<-1>> ELSE cut]

\* _read_buffers, as far as the accessors
_read_buffers(header, buffers, pos, broke) ==
    LET views == ReadViews(header, buffers)
        access == ReadAccessors(header, views)
    IN IF \E i \in 1..Len(views) : views[i] = <<-1>>
       THEN Loaded("raised", "view", header, buffers, <<>>, <<>>, pos, broke)
       ELSE IF \E i \in 1..Len(access) : access[i] = <<-1>>
       THEN Loaded("raised", "accessor", header, buffers, views, <<>>, pos, broke)
       ELSE Loaded("returned", "", header, buffers, views, access, pos, broke)

\* a chunk loop that treats a stream ending in a chunk header as an error
RECURSIVE ReadChunksStrict(_, _, _, _, _)
ReadChunksStrict(stream, start_, length, pos, buffers) ==
    IF ~(pos - start_ < length)
    THEN [error |-> "", buffers |-> buffers, pos |-> pos, broke |-> FALSE]
    ELSE LET chunk_head == Slice(stream, pos, pos + 8)
         IN IF Len(chunk_head) # 8
            THEN [error |-> "truncated", buffers |-> buffers,
                  pos |-> pos + Len(chunk_head), broke |-> FALSE]
            ELSE LET chunk_length == U32At(chunk_head, 0)
                     chunk_type == U32At(chunk_head, 1)
                     chunk_data == Slice(stream, pos + 8, pos + 8 + chunk_length)
                 IN IF chunk_type # MagicBin
                    THEN [error |-> "not binary GLTF!", buffers |-> buffers,
                          pos |-> pos + 8, broke |-> FALSE]
                    ELSE IF Len(chunk_data) # chunk_length
                    THEN [error |-> "chunk was not expected length!", buffers |-> buffers,
                          pos |-> pos + 8 + Len(chunk_data), broke |-> FALSE]
                    ELSE ReadChunksStrict(stream, start_, length,
                                          pos + 8 + chunk_length,
                                          Append(buffers, chunk_data))

\* the while loop of load_glb from position pos on
RECURSIVE ReadChunks(_, _, _, _, _)
ReadChunks(stream, start_, length, pos, buffers) ==
    IF ~(pos - start_ < length)
    THEN [error |-> "", buffers |-> buffers, pos |-> pos, broke |-> FALSE]
    ELSE LET chunk_head == Slice(stream, pos, pos + 8)
         IN IF Len(chunk_head) # 8
            THEN [error |-> "", buffers |-> buffers,
                  pos |-> pos + Len(chunk_head), broke |-> TRUE]
            ELSE LET chunk_length == U32At(chunk_head, 0)
                     chunk_type == U32At(chunk_head, 1)
                     chunk_data == Slice(stream, pos + 8, pos + 8 + chunk_length)
                 IN IF chunk_type # MagicBin
                    THEN [error |-> "not binary GLTF!", buffers |-> buffers,
                          pos |-> pos + 8, broke |-> FALSE]
                    ELSE IF Len(chunk_data) # chunk_length
                    THEN [error |-> "chunk was not expected length!", buffers |-> buffers,
                          pos |-> pos + 8 + Len(chunk_data), broke |-> FALSE]
                    ELSE ReadChunks(stream, start_, length,
                                    pos + 8 + chunk_length,
                                    Append(buffers, chunk_data))

\* a header check that lets any first chunk type through
HeadErrorNoType(head_data) ==
    IF Len(head_data) # 20 THEN "short header"
    ELSE IF U32At(head_data, 0) # MagicGltf \/ U32At(head_data, 1) # 2
    THEN "file is not GLTF 2.0"
    ELSE ""

\* why the 20 bytes read first are refused, "" when they are not
HeadError(head_data) ==
    IF Len(head_data) # 20 THEN "short header"
    ELSE IF U32At(head_data, 0) # MagicGltf \/ U32At(head_data, 1) # 2
    THEN "file is not GLTF 2.0"
    ELSE IF U32At(head_data, 4) # MagicJson
    THEN "no initial JSON header!"
    ELSE ""

load_glb(stream, start_) ==
    LET head_data == Slice(stream, start_, start_ + 20)
        refused == HeadError(head_data)
    IN IF refused # ""
       THEN Loaded("raised", refused, JsonError, <<>>, <<>>, <<>>,
                   start_ + Len(head_data), FALSE)
       ELSE
       LET length == U32At(head_data, 2)
           chunk_length == U32At(head_data, 3)
           json_data == Slice(stream, start_ + 20, start_ + 20 + chunk_length)
           pos == start_ + 20 + Len(json_data)
           header == json_loads(json_data)
       IN IF ~header.ok
          THEN Loaded("raised", "json", JsonError, <<>>, <<>>, <<>>, pos, FALSE)
          ELSE LET r == ReadChunks(stream, start_, length, pos, <<>>)
               IN IF r.error # ""
                  THEN Loaded("raised", r.error, header, r.buffers, <<>>, <<>>,
                              r.pos, r.broke)
                  ELSE _read_buffers(header, r.buffers, r.pos, r.broke)

-----------------------------------------------------------------------------
(* Spec: a scene is exported, and the GLB bytes are loaded again *)

\* export_gltf(scene, extras=None, include_normals=None) would follow the
\* cache of each mesh when the argument is left out
DefaultIncludeNormalsNone == "None"

\* export_gltf(scene, extras=None, include_normals=False) and
\* export_glb(scene, extras=None, include_normals=False): the value of
\* include_normals when the caller leaves it out
DefaultIncludeNormals == "False"

\* no header has been handed to _read_buffers
NoRead ==
    /\ rb_header = <<>>
    /\ rb_views = <<>>
    /\ resolver = <<>>
    /\ images = <<>>
    /\ materials = <<>>
    /\ meshes = <<>>
    /\ mesh_prim = <<>>
    /\ names = <<>>
    /\ base_frame = ""
    /\ queue = <<>>
    /\ graph = <<>>

Init ==
    /\ pc = "build"
    /\ passed \in {"unset", "True", "False", "None"}
    /\ include_normals = IF passed = "unset" THEN DefaultIncludeNormals ELSE passed
    /\ scene = <<>>
    /\ NoRead
    /\ tree = EmptyTree
    /\ buffer_items = <<>>
    /\ acc_data = <<>>
    /\ img_data = <<>>
    /\ exported = <<>>
    /\ files = <<>>
    /\ file_obj = <<>>
    /\ start = 0
    /\ loaded = NotLoaded
    /\ data = <<>>
    /\ bound = 4
    /\ result = <<>>

\* the tree, the blobs and the histories become those of st; an exception
\* that left the call ends the export
Built(st) ==
    /\ tree' = st.tree
    /\ buffer_items' = st.buffer_items
    /\ acc_data' = st.acc_data
    /\ img_data' = st.img_data
    /\ pc' = IF st.raised THEN "raised" ELSE "build"

\* the loop of _create_gltf_structure meets a Trimesh
AppendMesh ==
    /\ pc = "build"
    /\ Len(tree.meshes) < MaxGeoms
    /\ \E mesh \in {g \in Geometries : g.class = "Trimesh"} :
          /\ Built(_append_mesh(Building(tree, buffer_items, acc_data, img_data),
                                mesh, Len(tree.meshes), include_normals))
          /\ scene' = Append(scene, mesh)
    /\ UNCHANGED <<passed, include_normals, exported, files, loadVars, padVars,
                   readVars>>

\* the loop of _create_gltf_structure meets a Path
AppendPath ==
    /\ pc = "build"
    /\ Len(tree.meshes) < MaxGeoms
    /\ \E path \in {g \in Geometries : g.class = "Path"} :
          /\ Built(_append_path(Building(tree, buffer_items, acc_data, img_data),
                                path, Len(tree.meshes)))
          /\ scene' = Append(scene, path)
    /\ UNCHANGED <<passed, include_normals, exported, files, loadVars, padVars,
                   readVars>>

ExportGlb ==
    /\ pc = "build"
    /\ LET r == export_glb(tree, buffer_items)
       IN /\ tree' = r.tree
          /\ exported' = r.exported
    /\ pc' = "glb"
    /\ UNCHANGED <<passed, scene, include_normals, buffer_items, acc_data,
                   img_data, files, loadVars, padVars, readVars>>

ExportGltf ==
    /\ pc = "build"
    /\ LET r == export_gltf(tree, buffer_items)
       IN /\ tree' = r.tree
          /\ files' = r.files
    /\ pc' = "gltf"
    /\ UNCHANGED <<passed, scene, include_normals, buffer_items, acc_data,
                   img_data, exported, loadVars, padVars, readVars>>

\* load_glb on a stream of the exported bytes
LoadExported ==
    /\ pc = "glb"
    /\ file_obj' = exported
    /\ start' = 0
    /\ loaded' = load_glb(exported, 0)
    /\ pc' = "loaded"
    /\ UNCHANGED <<exportVars, padVars, readVars>>

Next ==
    \/ AppendMesh
    \/ AppendPath
    \/ ExportGlb
    \/ ExportGltf
    \/ LoadExported

Spec == Init /\ [][Next]_vars

-----------------------------------------------------------------------------
(* SpecPad: _byte_pad is called on a byte string *)

RECURSIVE BytesUpTo(_, _)
BytesUpTo(alphabet, n) ==
    IF n = 0 THEN {<<>>}
    ELSE LET shorter == BytesUpTo(alphabet, n - 1)
         IN shorter \cup {Append(b, x) : b \in shorter, x \in alphabet}

InitPad ==
    /\ pc = "pad"
    /\ data \in BytesUpTo({0, SPACE, 255}, MaxLen)
    /\ bound \in {1, 2, 4, 8}
    /\ result = <<>>
    /\ passed = "unset"
    /\ include_normals = DefaultIncludeNormals
    /\ scene = <<>>
    /\ NoRead
    /\ tree = EmptyTree
    /\ buffer_items = <<>>
    /\ acc_data = <<>>
    /\ img_data = <<>>
    /\ exported = <<>>
    /\ files = <<>>
    /\ file_obj = <<>>
    /\ start = 0
    /\ loaded = NotLoaded

BytePad ==
    /\ pc = "pad"
    /\ result' = _byte_pad(data, bound)
    /\ pc' = "padded"
    /\ UNCHANGED <<data, bound, exportVars, loadVars, readVars>>

NextPad == BytePad

SpecPad == InitPad /\ [][NextPad]_vars

-----------------------------------------------------------------------------
(* SpecLoad: load_glb is called on a stream that need not be a GLB file *)

\* layouts for the JSON chunk: no view, a view of the first buffer, a view
\* of each of two buffers
StreamLayouts ==
    LET view(b) == [buffer |-> b, byteOffset |-> 0, byteLength |-> 4]
    IN {EmptyTree,
        [EmptyTree EXCEPT !.buffers = <<[byteLength |-> 4]>>,
                          !.bufferViews = <<view(0)>>],
        [EmptyTree EXCEPT !.buffers = <<[byteLength |-> 4], [byteLength |-> 4]>>,
                          !.bufferViews = <<view(0), view(1)>>]}

\* the first 20 bytes: as they should be, or with one field wrong
StreamHeads ==
    {[magic |-> MagicGltf, version |-> 2, type |-> MagicJson],
     [magic |-> MagicBin, version |-> 2, type |-> MagicJson],
     [magic |-> MagicGltf, version |-> 1, type |-> MagicJson],
     [magic |-> MagicGltf, version |-> 2, type |-> MagicBin]}

\* a chunk after the JSON chunk: the length and type its header declares and
\* the length of the payload that follows
StreamChunks ==
    {[declared |-> 4, type |-> MagicBin, size |-> 4],
     [declared |-> 0, type |-> MagicBin, size |-> 0],
     [declared |-> 4, type |-> MagicJson, size |-> 4],
     [declared |-> 8, type |-> MagicBin, size |-> 4]}

RECURSIVE SeqsUpTo(_, _)
SeqsUpTo(S, n) ==
    IF n = 0 THEN {<<>>}
    ELSE LET shorter == SeqsUpTo(S, n - 1)
         IN shorter \cup {Append(q, x) : q \in shorter, x \in S}

\* the bytes of the k-th chunk
ChunkBytes(chunk, k) ==
    U32ArrayBytes(<<chunk.declared, chunk.type>>) \o [i \in 1..chunk.size |-> k]

\* a GLB file made of these parts, declaring `extra` more bytes than it has
StreamBytes(head, layout, chunks, extra) ==
    LET content == ContentPad(json_dumps(layout))
        body == Join([k \in 1..Len(chunks) |-> ChunkBytes(chunks[k], k)])
    IN U32ArrayBytes(<<head.magic, head.version,
                       20 + Len(content) + Len(body) + extra,
                       Len(content), head.type>>)
       \o content \o body

InitLoad ==
    /\ pc = "stream"
    /\ start \in {0, 3}
    /\ \E head \in StreamHeads, layout \in StreamLayouts,
          chunks \in SeqsUpTo(StreamChunks, MaxChunks),
          extra \in {0, 4}, cut \in 0..MaxCut, short \in BOOLEAN :
          LET full == StreamBytes(head, layout, chunks, extra)
              keep == IF short THEN 19 - cut ELSE Len(full) - cut
          IN file_obj = [i \in 1..start |-> 7] \o SubSeq(full, 1, keep)
    /\ loaded = NotLoaded
    /\ passed = "unset"
    /\ include_normals = DefaultIncludeNormals
    /\ scene = <<>>
    /\ NoRead
    /\ tree = EmptyTree
    /\ buffer_items = <<>>
    /\ acc_data = <<>>
    /\ img_data = <<>>
    /\ exported = <<>>
    /\ files = <<>>
    /\ data = <<>>
    /\ bound = 4
    /\ result = <<>>

LoadStream ==
    /\ pc = "stream"
    /\ loaded' = load_glb(file_obj, start)
    /\ pc' = "loaded"
    /\ UNCHANGED <<file_obj, start, exportVars, padVars, readVars>>

NextLoad == LoadStream

SpecLoad == InitLoad /\ [][NextLoad]_vars

-----------------------------------------------------------------------------
(* The rest of _read_buffers: materials, meshes, frame names and the walk   *)
(* over the nodes.  A key of a JSON object that may be absent is a sequence *)
(* of no value or of one value.                                             *)

Absent == <<>>
Some(v) == <<v>>
Has(opt) == Len(opt) > 0

\* --- node transforms: (4, 4) arrays are sequences of four rows -----------

\* np.eye(4)
eye4 == [i \in 1..4 |-> [j \in 1..4 |-> IF i = j THEN 1 ELSE 0]]

\* np.dot of two (4, 4) arrays
dot(A, B) ==
    [i \in 1..4 |-> [j \in 1..4 |->
        A[i][1] * B[1][j] + A[i][2] * B[2][j] + A[i][3] * B[3][j] + A[i][4] * B[4][j]]]

\* np.array(m).reshape((4, 4)).T: the 16 numbers read column by column
ReshapeT(m) == [i \in 1..4 |-> [j \in 1..4 |-> m[4 * (j - 1) + i]]]

\* transformations.translation_matrix(t): the identity with t in the last
\* column
translation_matrix(t) ==
    [i \in 1..4 |-> [j \in 1..4 |->
        IF j = 4 /\ i < 4 THEN t[i] ELSE IF i = j THEN 1 ELSE 0]]

\* transformations.quaternion_matrix(q), q = (w, x, y, z): the rotation of
\* q / |q|, for the q whose entries of 2 * outer(q, q) / dot(q, q) are whole
quaternion_matrix(q) ==
    LET n == q[1] * q[1] + q[2] * q[2] + q[3] * q[3] + q[4] * q[4]
        o(i, j) == (2 * q[i + 1] * q[j + 1]) \div n
    IN IF n = 0
       THEN eye4
       ELSE << <<1 - o(2, 2) - o(3, 3), o(1, 2) - o(3, 0), o(1, 3) + o(2, 0), 0>>,
               <<o(1, 2) + o(3, 0), 1 - o(1, 1) - o(3, 3), o(2, 3) - o(1, 0), 0>>,
               <<o(1, 3) - o(2, 0), o(2, 3) + o(1, 0), 1 - o(1, 1) - o(2, 2), 0>>,
               <<0, 0, 0, 1>> >>

\* np.diag(d)
diag(d) == [i \in 1..4 |-> [j \in 1..4 |-> IF i = j THEN d[i] ELSE 0]]

\* the rotation handed on as it is on the wire
QuatWireOrder(rotation) == rotation

\* np.reshape(child["rotation"], 4)[[3, 0, 1, 2]]
quat(rotation) == <<rotation[4], rotation[1], rotation[2], rotation[3]>>

\* kwargs["matrix"] of the edge to a node
NodeMatrix(child) ==
    LET m0 == IF Has(child.matrix) THEN ReshapeT(child.matrix[1]) ELSE eye4
        m1 == IF Has(child.translation)
              THEN dot(m0, translation_matrix(child.translation[1]))
              ELSE m0
        m2 == IF Has(child.rotation)
              THEN dot(m1, quaternion_matrix(quat(child.rotation[1])))
              ELSE m1
        m3 == IF Has(child.scale)
              THEN dot(m2, diag(child.scale[1] \o <<1>>))
              ELSE m2
    IN m3

\* --- _parse_materials ----------------------------------------------------

\* an image of the result: None, or the PIL image opened from a blob
NoneImage == [kind |-> "None", blob |-> <<>>]
OpenedImage(blob) == [kind |-> "image", blob |-> blob]
\* a value of a material that is no image
ScalarValue == [kind |-> "scalar", blob |-> <<>>]

\* PIL.Image.open succeeds on a blob that starts as a PNG or a JPEG file does
CanOpen(blob) == Len(blob) > 0 /\ blob[1] \in {137, 255}

\* _uri_to_bytes: the bytes after 'base64,' decoded, or resolver[uri]; an
\* exception leaves it when the resolver has no such name, when there is no
\* resolver, and when the base64 text cannot be decoded
_uri_to_bytes(uri, resolver_) ==
    IF uri.base64
    THEN [raised |-> ~uri.valid, blob |-> IF uri.valid THEN uri.data ELSE <<>>]
    ELSE IF uri.name \in DOMAIN resolver_
    THEN [raised |-> FALSE, blob |-> resolver_[uri.name]]
    ELSE [raised |-> TRUE, blob |-> <<>>]

\* the loop over header["images"], from the i-th (from 1)
RECURSIVE LoadImages(_, _, _, _, _)
LoadImages(hdr, views_, resolver_, i, imgs) ==
    IF i > Len(hdr.images)
    THEN [raised |-> FALSE, images |-> imgs]
    ELSE LET img == hdr.images[i]
             got == IF Has(img.bufferView)
                    THEN [raised |-> FALSE, blob |-> views_[img.bufferView[1] + 1]]
                    ELSE _uri_to_bytes(img.uri[1], resolver_)
         IN IF ~Has(img.bufferView) /\ ~Has(img.uri)
            THEN LoadImages(hdr, views_, resolver_, i + 1, imgs)
            ELSE IF got.raised
            THEN [raised |-> TRUE, images |-> imgs]
            ELSE LoadImages(hdr, views_, resolver_, i + 1,
                            IF CanOpen(got.blob)
                            THEN [imgs EXCEPT ![i] = OpenedImage(got.blob)]
                            ELSE imgs)

\* the kwargs of the PBRMaterial made of a header material: the keys of
\* "pbrMetallicRoughness" moved to the top, plain values kept, a texture
\* replaced by the image it refers to, other objects dropped
MaterialKwargs(hdr, imgs, mat) ==
    LET loopable == IF Has(mat.pbrMetallicRoughness)
                    THEN mat.pbrMetallicRoughness[1] @@ mat.top
                    ELSE mat.top
        kept == {k \in DOMAIN loopable : loopable[k].kind # "object"}
    IN [k \in kept |->
          IF loopable[k].kind = "scalar"
          THEN ScalarValue
          ELSE imgs[hdr.textures[loopable[k].index + 1].source + 1]]

_parse_materials(hdr, views_, resolver_) ==
    LET loaded_ == LoadImages(hdr, views_, resolver_, 1,
                              [i \in 1..Len(hdr.images) |-> NoneImage])
    IN IF loaded_.raised
       THEN [raised |-> TRUE, images |-> loaded_.images, materials |-> <<>>]
       ELSE [raised |-> FALSE, images |-> loaded_.images,
             materials |-> [m \in 1..Len(hdr.materials) |->
                               MaterialKwargs(hdr, loaded_.images, hdr.materials[m])]]

\* --- the meshes: one Trimesh per triangle primitive ----------------------

\* every primitive is taken for a triangle primitive
AnyMode(p) == TRUE

\* not ("mode" in p and p["mode"] != 4)
IsTriangles(p) == ~(Has(p.mode) /\ p.mode[1] # 4)

\* the name of the geometry of primitive j of the mesh m at `index`
GeometryName(hdr, index, j) ==
    LET m == hdr.meshes[index + 1]
        name == IF Has(m.name)
                THEN m.name[1]
                ELSE IF Len(hdr.meshes) > 1
                THEN "GLTF_geometry" \o "_" \o ToString(index)
                ELSE "GLTF_geometry"
    IN IF Len(m.primitives) > 1
       THEN name \o "_" \o ToString(j)
       ELSE name

\* the kwargs of a primitive: the accessors of its vertices and faces (the
\* faces are counted off when there are no indices) and its material
MeshKwargs(p) ==
    [vertices |-> p.POSITION, faces |-> p.indices, material |-> p.material]

\* the loop over the primitives of the mesh at `index`, from primitive j
RECURSIVE ReadPrimitives(_, _, _, _)
ReadPrimitives(hdr, index, j, st) ==
    LET m == hdr.meshes[index + 1]
    IN IF j >= Len(m.primitives)
       THEN st
       ELSE IF ~IsTriangles(m.primitives[j + 1])
       THEN ReadPrimitives(hdr, index, j + 1, st)
       ELSE LET name == GeometryName(hdr, index, j)
            IN ReadPrimitives(hdr, index, j + 1,
                 [meshes |-> (name :> MeshKwargs(m.primitives[j + 1])) @@ st.meshes,
                  mesh_prim |-> [st.mesh_prim EXCEPT ![index + 1] = Append(@, name)]])

\* the loop over header["meshes"], from the mesh at `index`
RECURSIVE ReadMeshesFrom(_, _, _)
ReadMeshesFrom(hdr, index, st) ==
    IF index >= Len(hdr.meshes)
    THEN st
    ELSE ReadMeshesFrom(hdr, index + 1, ReadPrimitives(hdr, index, 0, st))

\* mesh_prim[index] of a defaultdict(list)
MeshPrim(mesh_prim_, index) ==
    IF index + 1 \in DOMAIN mesh_prim_ THEN mesh_prim_[index + 1] ELSE <<>>

\* --- the frame names -----------------------------------------------------

\* the keys of the dict `names`: node indices are ints, the base frame is a
\* str, and an int is never equal to a str
IntKey(i) == <<"int", ToString(i)>>
StrKey(s) == <<"str", s>>

\* names[i] = n["name"] if there is one, else str(i)
NodeNames(nodes) ==
    [k \in {IntKey(i) : i \in 0..(Len(nodes) - 1)} |->
        LET i == CHOOSE i \in 0..(Len(nodes) - 1) : IntKey(i) = k
        IN IF Has(nodes[i + 1].name) THEN nodes[i + 1].name[1] ELSE ToString(i)]

\* str(int(np.random.random() * 1e10)): some of the values it can take
RandomFrames == {"0", "1", "4815162342"}

\* base_frame: "world", or a random number when "world" is a key of names
BaseFrame(names_, random) ==
    IF StrKey("world") \in DOMAIN names_ THEN random ELSE "world"

\* the scene the walk starts from
SceneIndex(hdr) == IF Has(hdr.scene) THEN hdr.scene[1] ELSE 0

\* the queue before the loop: the base frame paired with each root
RootPairs(hdr, base) ==
    LET roots == hdr.scenes[SceneIndex(hdr) + 1]
    IN [r \in 1..Len(roots) |-> [a |-> StrKey(base), b |-> roots[r]]]

\* --- one round of the loop over the queue --------------------------------

\* util.unique_id(length=6, increment=n).upper(): told apart by the counter
unique_id(increment) == "U" \o ToString(increment)

\* the pair taken is the oldest of the queue
PopLeft(q) == [pair |-> q[1], rest |-> Tail(q)]

\* queue.pop(): the pair taken is the last of the queue
Pop(q) == [pair |-> q[Len(q)], rest |-> SubSeq(q, 1, Len(q) - 1)]

\* the edges appended for the pair (a, b) when the graph has n edges: the
\* edge to the node, then one edge per geometry of its mesh; `node` is
\* history, the index of the node the edge was made for
Edges(hdr, names_, mesh_prim_, a, b, n) ==
    LET child == hdr.nodes[b + 1]
        kwargs == [frame_from |-> names_[a],
                   frame_to |-> names_[IntKey(b)],
                   matrix |-> NodeMatrix(child),
                   geometry |-> Absent,
                   node |-> b]
        geometries == IF Has(child.mesh)
                      THEN MeshPrim(mesh_prim_, child.mesh[1])
                      ELSE <<>>
    IN <<kwargs>> \o
       [g \in 1..Len(geometries) |->
           [kwargs EXCEPT !.geometry = Some(geometries[g]),
                          !.frame_to = geometries[g] \o "_" \o unique_id(n + g)]]

\* the pairs added to the queue for the children of node b
ChildPairs(hdr, b) ==
    LET children == hdr.nodes[b + 1].children
    IN [c \in 1..Len(children) |-> [a |-> IntKey(b), b |-> children[c]]]

-----------------------------------------------------------------------------
(* SpecRead: _read_buffers is handed a header, from its call of             *)
(* _parse_materials on, one round of its loop over the queue at a time      *)

\* a header: the keys that are read after the accessors
Header(images_, textures, materials_, meshes_, nodes, scenes, scene_) ==
    [images |-> images_, textures |-> textures, materials |-> materials_,
     meshes |-> meshes_, nodes |-> nodes, scenes |-> scenes, scene |-> scene_]

Node(name, children, mesh, matrix, translation, rotation, scale) ==
    [name |-> name, children |-> children, mesh |-> mesh, matrix |-> matrix,
     translation |-> translation, rotation |-> rotation, scale |-> scale]

\* a primitive with its mode and the accessor of its vertices; it has no
\* indices (-1), no material (-1)
Prim(mode, position) ==
    [mode |-> mode, POSITION |-> position, indices |-> -1, material |-> -1]

Mesh(name, primitives) == [name |-> name, primitives |-> primitives]

\* the lists of at most two different elements of a set
ShortLists(S) ==
    {<<>>} \cup {<<x>> : x \in S} \cup {z \in S \X S : z[1] # z[2]}

\* headers for the frame names: every node a root, with no name, a name of
\* its own, the name of another node, the decimal index of a node, "world"
NameHeaders ==
    LET options == {Absent, Some("world"), Some("a"), Some("0"), Some("1")}
    IN UNION {
         {Header(<<>>, <<>>, <<>>, <<>>,
                 [i \in 1..n |-> Node(nm[i], <<>>, Absent, Absent, Absent, Absent, Absent)],
                 <<[i \in 1..n |-> i - 1]>>, Absent)
            : nm \in [1..n -> options]}
         : n \in 1..MaxNodes}

\* headers for the transform of a node: one root with every combination of
\* matrix, translation, rotation (x, y, z, w) and scale
MatrixHeaders ==
    {Header(<<>>, <<>>, <<>>, <<>>,
            <<Node(Absent, <<>>, Absent, m, t, r, s)>>, <<<<>>, <<0>>>>, Some(1))
       : m \in {Absent,
                Some(<<1, 2, 3, 0, 4, 5, 6, 0, 7, 8, 9, 0, 10, 11, 12, 1>>),
                Some(<<0, 1, 0, 0, -1, 0, 0, 0, 0, 0, 1, 0, 5, 6, 7, 1>>)},
         t \in {Absent, Some(<<1, 2, 3>>)},
         r \in {Absent, Some(<<0, 0, 0, 1>>), Some(<<1, 0, 0, 0>>),
                Some(<<0, 0, 1, 1>>), Some(<<0, 1, 0, -1>>), Some(<<0, 0, 0, 0>>)},
         s \in {Absent, Some(<<2, 3, 4>>)}}

\* the meshes of the headers for the walk: two triangle primitives around a
\* line primitive, one triangle primitive, one line primitive
WalkMeshes ==
    <<Mesh(Absent, <<Prim(Some(4), 0), Prim(Some(1), 1), Prim(Absent, 2)>>),
      Mesh(Some("a"), <<Prim(Absent, 10)>>),
      Mesh(Absent, <<Prim(Some(1), 20)>>)>>

\* headers for the walk: MaxNodes nodes; the children of a node are nodes
\* after it, but for at most one reference (from node p to node q) to a node
\* that is not; the roots are node 0, or nodes 0 and 1
WalkHeaders ==
    LET N == MaxNodes
        forward == {f \in [0..(N - 1) -> ShortLists(0..(N - 1))] :
                       \A i \in 0..(N - 1) : \A c \in 1..Len(f[i]) : f[i][c] > i}
        back == {<<>>} \cup {z \in (0..(N - 1)) \X (0..(N - 1)) : z[2] <= z[1]}
        children(f, b, i) == IF Len(b) = 2 /\ b[1] = i THEN Append(f[i], b[2]) ELSE f[i]
        mesh(pattern, i) == IF pattern = "none" THEN Absent
                            ELSE IF pattern = "same" THEN Some(0)
                            ELSE Some(i % Len(WalkMeshes))
    IN {Header(<<>>, <<>>, <<>>, WalkMeshes,
               [k \in 1..N |->
                   Node(Absent, children(f, b, k - 1), mesh(pattern, k - 1), Absent,
                        IF k % 2 = 0 THEN Some(<<k, 0, 0>>) ELSE Absent,
                        Absent, Absent)],
               <<roots>>, Absent)
          : f \in forward, b \in back, pattern \in {"none", "same", "spread"},
            roots \in {<<0>>, <<0, 1>>, <<1, 0>>}}

\* headers for the geometry names: meshes with or without a name, of one or
\* two primitives, each the mesh of a root node
MeshHeaders ==
    LET options == {Absent, Some("a"), Some("a_0"), Some("GLTF_geometry_1")}
        modes == {<<Some(4)>>, <<Some(1)>>, <<Absent, Some(4)>>, <<Some(4), Some(1)>>}
    IN UNION {
         {Header(<<>>, <<>>, <<>>,
                 [i \in 1..n |->
                     Mesh(nm[i], [j \in 1..Len(md[i]) |-> Prim(md[i][j], 10 * (i - 1) + j - 1)])],
                 [i \in 1..n |-> Node(Absent, <<>>, Some(i - 1), Absent, Absent, Absent, Absent)],
                 <<[i \in 1..n |-> i - 1]>>, Absent)
            : nm \in [1..n -> options], md \in [1..n -> modes]}
         : n \in 1..MaxMeshes}

\* values of a header material: a number or a list, a reference to a
\* texture, another JSON object
Scalar == [kind |-> "scalar", index |-> -1]
Texture(i) == [kind |-> "texture", index |-> i]
Object == [kind |-> "object", index |-> -1]

\* a header image with its "bufferView" or its "uri"
ImageEntry(bufferView, uri) == [bufferView |-> bufferView, uri |-> uri]
\* a name for the resolver, and a URI with 'base64,' in it
FileUri(name) == [base64 |-> FALSE, name |-> name, data |-> <<>>, valid |-> TRUE]
DataUri(bytes, valid) == [base64 |-> TRUE, name |-> "", data |-> bytes, valid |-> valid]

\* headers for the materials with their views and resolver: images in a view
\* (a PNG file, other bytes), at a name the resolver has or has not, in a
\* data URI, or with no source; texture i is image i, material i has
\* texture i as its base colour, and a last material has texture 0 as its
\* normal texture
MaterialCases ==
    LET entries == {ImageEntry(Some(0), Absent), ImageEntry(Some(1), Absent),
                    ImageEntry(Absent, Some(FileUri("tex.png"))),
                    ImageEntry(Absent, Some(FileUri("missing.png"))),
                    ImageEntry(Absent, Some(DataUri(<<137, 80, 78, 71>>, TRUE))),
                    ImageEntry(Absent, Absent)}
        base(i) == [top |-> ("emissiveFactor" :> Scalar) @@ ("extensions" :> Object),
                    pbrMetallicRoughness |->
                        Some(("baseColorTexture" :> Texture(i)) @@ ("metallicFactor" :> Scalar))]
        normal == [top |-> ("normalTexture" :> Texture(0)) @@ ("metallicFactor" :> Scalar),
                   pbrMetallicRoughness |-> Absent]
    IN UNION {
         {[header |-> Header(e, [i \in 1..n |-> [source |-> i - 1]],
                             [i \in 1..(n + 1) |-> IF i <= n THEN base(i - 1) ELSE normal],
                             <<>>, <<>>, <<<<>>>>, Absent),
           views |-> << <<137, 80, 78, 71>>, <<0, 1, 2, 3>> >>,
           resolver |-> r]
            : e \in [1..n -> entries],
              r \in {<<>>, ("tex.png" :> <<255, 216, 255, 224>>)}}
         : n \in 1..MaxImages}

\* what _read_buffers is handed
ReadCases ==
    {[header |-> h, views |-> <<>>, resolver |-> <<>>]
        : h \in NameHeaders \cup MatrixHeaders \cup WalkHeaders \cup MeshHeaders}
    \cup MaterialCases

\* nothing is exported, loaded or padded
NoExport ==
    /\ passed = "unset"
    /\ include_normals = DefaultIncludeNormals
    /\ scene = <<>>
    /\ tree = EmptyTree
    /\ buffer_items = <<>>
    /\ acc_data = <<>>
    /\ img_data = <<>>
    /\ exported = <<>>
    /\ files = <<>>
NoLoad ==
    /\ file_obj = <<>>
    /\ start = 0
    /\ loaded = NotLoaded
NoPad ==
    /\ data = <<>>
    /\ bound = 4
    /\ result = <<>>

InitRead ==
    /\ pc = "read"
    /\ \E case \in ReadCases :
          /\ rb_header = case.header
          /\ rb_views = case.views
          /\ resolver = case.resolver
    /\ images = <<>>
    /\ materials = <<>>
    /\ meshes = <<>>
    /\ mesh_prim = <<>>
    /\ names = <<>>
    /\ base_frame = ""
    /\ queue = <<>>
    /\ graph = <<>>
    /\ NoExport
    /\ NoLoad
    /\ NoPad

\* materials = _parse_materials(header, views=views, resolver=resolver)
ParseMaterials ==
    /\ pc = "read"
    /\ LET r == _parse_materials(rb_header, rb_views, resolver)
       IN /\ images' = r.images
          /\ materials' = r.materials
          /\ pc' = IF r.raised THEN "raised" ELSE "meshes"
    /\ UNCHANGED <<rb_header, rb_views, resolver, meshes, mesh_prim, names,
                   base_frame, queue, graph, exportVars, loadVars, padVars>>

\* the loop over header["meshes"]
ReadMeshes ==
    /\ pc = "meshes"
    /\ LET st == ReadMeshesFrom(rb_header, 0,
                    [meshes |-> <<>>,
                     mesh_prim |-> [i \in 1..Len(rb_header.meshes) |-> <<>>]])
       IN /\ meshes' = st.meshes
          /\ mesh_prim' = st.mesh_prim
    /\ pc' = "names"
    /\ UNCHANGED <<rb_header, rb_views, resolver, images, materials, names,
                   base_frame, queue, graph, exportVars, loadVars, padVars>>

\* the names of the nodes and of the base frame, and the roots queued
ReadNames ==
    /\ pc = "names"
    /\ \E random \in RandomFrames :
          LET base == BaseFrame(NodeNames(rb_header.nodes), random)
          IN /\ base_frame' = base
             /\ names' = (StrKey(base) :> base) @@ NodeNames(rb_header.nodes)
             /\ queue' = RootPairs(rb_header, base)
    /\ pc' = "walk"
    /\ UNCHANGED <<rb_header, rb_views, resolver, images, materials, meshes,
                   mesh_prim, graph, exportVars, loadVars, padVars>>

\* one round of `while len(queue) > 0`
Walk ==
    /\ pc = "walk"
    /\ Len(queue) > 0
    /\ Len(graph) < MaxGraph
    /\ LET popped == Pop(queue)
           a == popped.pair.a
           b == popped.pair.b
       IN /\ queue' = popped.rest \o ChildPairs(rb_header, b)
          /\ graph' = graph \o Edges(rb_header, names, mesh_prim, a, b, Len(graph))
    /\ UNCHANGED <<pc, rb_header, rb_views, resolver, images, materials, meshes,
                   mesh_prim, names, base_frame, exportVars, loadVars, padVars>>

\* the queue is empty: the kwargs of the scene are returned
Finish ==
    /\ pc = "walk"
    /\ Len(queue) = 0
    /\ pc' = "done"
    /\ UNCHANGED <<readVars, exportVars, loadVars, padVars>>

NextRead ==
    \/ ParseMaterials
    \/ ReadMeshes
    \/ ReadNames
    \/ Walk
    \/ Finish

SpecRead == InitRead /\ [][NextRead]_vars

\* the loop goes on while it can
SpecReadFair == SpecRead /\ WF_vars(NextRead)

-----------------------------------------------------------------------------
(* Properties of _byte_pad, under SpecPad *)

\* C6: _byte_pad returns its argument followed by k spaces, k the least
\* number that makes the length a multiple of the boundary: the length of the
\* result is a multiple of the boundary, 0 <= k < boundary, the argument is a
\* prefix of the result, an aligned argument is returned unchanged, and
\* padding the result again changes nothing.
C6_PadAppendsLeastSpaces ==
    pc = "padded" =>
        LET k == Len(result) - Len(data)
        IN /\ Len(result) % bound = 0
           /\ k >= 0
           /\ k < bound
           /\ SubSeq(result, 1, Len(data)) = data
           /\ \A i \in (Len(data) + 1)..Len(result) : result[i] = SPACE
           /\ (Len(data) % bound = 0 => result = data)
           /\ _byte_pad(result, bound) = result

\* a 5-byte argument padded to 8 bytes on the boundary 4
C6_Witness ==
    /\ pc = "padded"
    /\ bound = 4
    /\ Len(data) = 5
    /\ Len(result) = 8

-----------------------------------------------------------------------------
(* Properties of the export, under Spec *)

Exported == pc \in {"glb", "loaded"}

\* the binary payload of the exported bytes, after both headers and the JSON
BinaryPayload == SubSeq(exported, 20 + U32At(exported, 3) + 8 + 1, Len(exported))

\* C1: the exported GLB starts with the glTF magic, version 2, its own exact
\* length, the length of the space-padded JSON chunk (a multiple of 4) and
\* the JSON magic; the binary chunk header follows that chunk, at offset
\* 20 + chunk0Length, a multiple of 4.
C1_GlbHeader ==
    Exported =>
        LET chunk0Length == U32At(exported, 3)
            text == json_dumps(tree)
            at == 5 + (chunk0Length \div 4)
        IN /\ U32At(exported, 0) = 1179937895
           /\ U32At(exported, 1) = 2
           /\ U32At(exported, 2) = Len(exported)
           /\ chunk0Length % 4 = 0
           /\ chunk0Length >= Len(text)
           /\ SubSeq(exported, 21, 20 + chunk0Length)
                = text \o Spaces(chunk0Length - Len(text))
           /\ U32At(exported, 4) = 1313821514
           /\ (20 + chunk0Length) % 4 = 0
           /\ U32At(exported, at) = Len(Join(buffer_items))
           /\ U32At(exported, at + 1) = 5130562
           /\ Len(exported) = 20 + chunk0Length + 8 + Len(Join(buffer_items))

\* an export with blobs whose JSON text was aligned already and got 4 spaces
C1_Witness ==
    /\ pc = "glb"
    /\ Len(buffer_items) >= 2
    /\ U32At(exported, 3) = Len(json_dumps(tree)) + 4

\* the accessors and images whose bufferView is b
ViewUsers(b) ==
    {<<"accessor", i>> : i \in {j \in 1..Len(tree.accessors) : tree.accessors[j].bufferView = b}}
    \cup {<<"image", i>> : i \in {j \in 1..Len(tree.images) : tree.images[j].bufferView = b}}

\* C2: at every point of an export, the bufferView of every accessor and of
\* every image is the index in buffer_items of the blob that holds the data
\* handed over with it, and every blob is referenced by exactly one accessor
\* or image.
C2_BufferViewIsBlobIndex ==
    /\ Len(acc_data) = Len(tree.accessors)
    /\ Len(img_data) = Len(tree.images)
    /\ \A i \in 1..Len(tree.accessors) :
          LET b == tree.accessors[i].bufferView
          IN /\ b >= 0
             /\ b < Len(buffer_items)
             /\ SubSeq(buffer_items[b + 1], 1, Len(acc_data[i])) = acc_data[i]
             /\ Len(buffer_items[b + 1]) - Len(acc_data[i]) \in 0..3
    /\ \A i \in 1..Len(tree.images) :
          LET b == tree.images[i].bufferView
          IN /\ b >= 0
             /\ b < Len(buffer_items)
             /\ SubSeq(buffer_items[b + 1], 1, Len(img_data[i])) = img_data[i]
             /\ Len(buffer_items[b + 1]) - Len(img_data[i]) \in 0..3
    /\ \A b \in 0..(Len(buffer_items) - 1) : Cardinality(ViewUsers(b)) = 1

\* two geometries, one of them textured, have been appended
C2_Witness ==
    /\ pc = "build"
    /\ Len(tree.meshes) = 2
    /\ Len(tree.images) >= 1
    /\ Len(tree.accessors) >= 5
    /\ tree.images[1].bufferView > 0

\* C3: in the GLB export view i is in buffer 0, starts where the blobs before
\* it end and is as long as blob i: the views are contiguous, do not overlap,
\* start at multiples of 4 and cover the one buffer, whose declared length is
\* the sum of the blob lengths.
C3_GlbViewsContiguous ==
    Exported =>
        LET views == tree.bufferViews
            n == Len(views)
        IN /\ n = Len(buffer_items)
           /\ Len(tree.buffers) = 1
           /\ tree.buffers[1].byteLength = SumLen(buffer_items, n)
           /\ tree.buffers[1].byteLength = Len(BinaryPayload)
           /\ \A i \in 1..n :
                /\ views[i].buffer = 0
                /\ views[i].byteOffset = SumLen(buffer_items, i - 1)
                /\ views[i].byteLength = Len(buffer_items[i])
                /\ views[i].byteOffset % 4 = 0
                /\ views[i].byteOffset
                     = (IF i = 1 THEN 0
                        ELSE views[i - 1].byteOffset + views[i - 1].byteLength)
                /\ Slice(BinaryPayload, views[i].byteOffset,
                         views[i].byteOffset + views[i].byteLength) = buffer_items[i]
           /\ (n > 0 => views[n].byteOffset + views[n].byteLength
                            = tree.buffers[1].byteLength)

\* a GLB export of at least three blobs
C3_Witness ==
    /\ pc = "glb"
    /\ Len(tree.bufferViews) >= 3
    /\ tree.bufferViews[3].byteOffset > tree.bufferViews[2].byteOffset

\* C5: every blob of buffer_items has a length that is a multiple of 4, and
\* in the GLB output the byte range of a view lies inside one blob.
C5_BlobsAligned ==
    /\ \A i \in 1..Len(buffer_items) : Len(buffer_items[i]) % 4 = 0
    /\ Exported =>
          \A v \in 1..Len(tree.bufferViews), i \in 1..Len(buffer_items) :
              LET lo == tree.bufferViews[v].byteOffset
                  hi == lo + tree.bufferViews[v].byteLength
                  from == SumLen(buffer_items, i - 1)
                  to == SumLen(buffer_items, i)
              IN \/ hi <= from
                 \/ to <= lo
                 \/ (from <= lo /\ hi <= to)

\* an encoded image of 3 bytes was appended and the scene exported
C5_Witness ==
    /\ pc = "glb"
    /\ Len(img_data) >= 1
    /\ Len(img_data[1]) % 4 = 3
    /\ Len(buffer_items) >= 4

\* C7: in an exported tree every accessor's count times the components per
\* element times the bytes per component is the byteLength of its view.
C7_AccessorByteLength ==
    pc \in {"glb", "loaded", "gltf"} =>
        \A i \in 1..Len(tree.accessors) :
            LET a == tree.accessors[i]
            IN /\ a.bufferView < Len(tree.bufferViews)
               /\ a.count * PerCount(a.type) * ItemSize(a.componentType)
                    = tree.bufferViews[a.bufferView + 1].byteLength

\* a multi-file export with colours or texture coordinates and normals
C7_Witness ==
    /\ pc = "gltf"
    /\ Len(tree.accessors) >= 4
    /\ \E i \in 1..Len(tree.accessors) : tree.accessors[i].type \in {"VEC4", "VEC2"}

\* C4: load_glb on the bytes export_glb produced returns without an error,
\* stops at the declared total length, has read the header that was written
\* and one buffer, the concatenation of the blobs; view i cut from it is
\* blob i and the bytes of accessor i are the array that was exported.
C4_GlbRoundTrip ==
    pc = "loaded" =>
        /\ loaded.status = "returned"
        /\ ~loaded.broke
        /\ loaded.pos = U32At(exported, 2)
        /\ loaded.pos = Len(exported)
        /\ loaded.header = Layout(tree)
        /\ loaded.buffers = <<Join(buffer_items)>>
        /\ loaded.views = buffer_items
        /\ loaded.access = acc_data

\* the scene without geometry, exported and loaded: no blob, one empty buffer
C4_WitnessEmpty ==
    /\ pc = "loaded"
    /\ buffer_items = <<>>
    /\ loaded.status = "returned"
    /\ loaded.buffers = <<<<>>>>

\* a scene of two geometries with a padded image, exported and loaded
C4_Witness ==
    /\ pc = "loaded"
    /\ loaded.status = "returned"
    /\ Len(tree.meshes) = 2
    /\ Len(loaded.views) >= 5
    /\ Len(img_data) >= 1
    /\ Len(img_data[1]) % 4 # 0

\* C8: in the multi-file export the file of blob i holds blob i and nothing
\* else, and view i declares the length of blob i.
C8_OneBlobPerFile ==
    pc = "gltf" =>
        /\ Len(files) = Len(buffer_items)
        /\ \A i \in 1..Len(buffer_items) :
              /\ files[i] = buffer_items[i]
              /\ tree.bufferViews[i].byteLength = Len(buffer_items[i])

\* what does hold of the files: file i is blob i followed by blob i + 1, the
\* last file is the last blob alone, and the views declare the blob lengths
C8_FileHoldsTwoBlobs ==
    pc = "gltf" =>
        /\ Len(files) = Len(buffer_items)
        /\ \A i \in 1..Len(buffer_items) :
              /\ files[i] = (IF i < Len(buffer_items)
                             THEN buffer_items[i] \o buffer_items[i + 1]
                             ELSE buffer_items[i])
              /\ tree.bufferViews[i].byteLength = Len(buffer_items[i])
              /\ tree.buffers[i].byteLength = Len(files[i])

\* C21: in the multi-file export the declared byteLength of buffer i is the
\* length of the file stored under its uri, view i names buffer i at offset
\* 0, and cutting the files by the views as _read_buffers does gives back
\* every blob, the last included, with no view-length assertion failing.
C21_BufferRoundTrip ==
    pc = "gltf" =>
        /\ Len(tree.buffers) = Len(buffer_items)
        /\ Len(tree.bufferViews) = Len(buffer_items)
        /\ \A i \in 1..Len(buffer_items) :
              /\ tree.buffers[i].uri = i - 1
              /\ tree.buffers[i].byteLength = Len(files[tree.buffers[i].uri + 1])
              /\ tree.bufferViews[i].buffer = i - 1
              /\ tree.bufferViews[i].byteOffset = 0
        /\ ReadViews(tree, files) = buffer_items

\* a multi-file export of several blobs that differ, the first file longer
\* than its view, all of them read back
C21_Witness ==
    /\ pc = "gltf"
    /\ Len(buffer_items) >= 3
    /\ buffer_items[1] # buffer_items[2]
    /\ Len(files[1]) > tree.bufferViews[1].byteLength
    /\ ReadViews(tree, files)[Len(buffer_items)] = buffer_items[Len(buffer_items)]

-----------------------------------------------------------------------------
(* Properties of load_glb, under SpecLoad *)

\* the 20 bytes load_glb reads first
HeadData == Slice(file_obj, start, start + 20)

\* C9: when the magic is not the glTF magic, the version is not 2 or the type
\* of the first chunk is not the JSON magic, load_glb raises: it returns
\* nothing and has read the 20 bytes of the header only, no chunk.
C9_BadHeaderRaises ==
    (/\ pc = "loaded"
     /\ Len(HeadData) = 20
     /\ \/ U32At(HeadData, 0) # 1179937895
        \/ U32At(HeadData, 1) # 2
        \/ U32At(HeadData, 4) # 1313821514)
    => /\ loaded.status = "raised"
       /\ loaded.error \in {"file is not GLTF 2.0", "no initial JSON header!"}
       /\ loaded.buffers = <<>>
       /\ loaded.views = <<>>
       /\ loaded.pos = start + 20

\* a complete file whose first chunk is declared binary was refused
C9_Witness ==
    /\ pc = "loaded"
    /\ Len(file_obj) - start >= 44
    /\ U32At(HeadData, 0) = 1179937895
    /\ U32At(HeadData, 1) = 2
    /\ U32At(HeadData, 4) = 5130562
    /\ loaded.status = "raised"
    /\ loaded.error = "no initial JSON header!"

\* the header was accepted and the JSON chunk parsed
ChunksReached ==
    /\ pc = "loaded"
    /\ HeadError(HeadData) = ""
    /\ loaded.header.ok

\* the total length the header declares
DeclaredLength == U32At(HeadData, 2)

\* where the stream stands once the JSON chunk and the first k chunks that
\* were kept have been read
AfterChunks(k) ==
    LET json_end == start + 20 + U32At(HeadData, 3)
    IN (IF json_end < Len(file_obj) THEN json_end ELSE Len(file_obj))
       + 8 * k + SumLen(loaded.buffers, k)

\* the position of the first chunk that was not kept
NextChunk == AfterChunks(Len(loaded.buffers))

\* the declared total length has been consumed
Consumed == ~(NextChunk - start < DeclaredLength)

\* a whole chunk header is there to be read at NextChunk
HeaderAvailable == NextChunk + 8 <= Len(file_obj)

NextChunkLength == U32At(Slice(file_obj, NextChunk, NextChunk + 8), 0)
NextChunkType == U32At(Slice(file_obj, NextChunk, NextChunk + 8), 1)

ChunkErrors == {"not binary GLTF!", "chunk was not expected length!"}

\* every buffer kept is the payload of a chunk of binary type that was read
\* before the declared length was consumed, in the order of the stream
BuffersInReadOrder ==
    \A k \in 1..Len(loaded.buffers) :
        LET at == AfterChunks(k - 1)
            head == Slice(file_obj, at, at + 8)
        IN /\ at - start < DeclaredLength
           /\ Len(head) = 8
           /\ U32At(head, 0) = Len(loaded.buffers[k])
           /\ U32At(head, 1) = 5130562
           /\ loaded.buffers[k] = Slice(file_obj, at + 8, at + 8 + Len(loaded.buffers[k]))

\* a chunk of another type, or with less payload than declared, raises
BadChunkRaises ==
    (~Consumed /\ HeaderAvailable) =>
        /\ loaded.status = "raised"
        /\ IF NextChunkType # 5130562
           THEN loaded.error = "not binary GLTF!"
           ELSE /\ loaded.error = "chunk was not expected length!"
                /\ Len(file_obj) < NextChunk + 8 + NextChunkLength

\* C10 as claimed: chunks are read until the declared length is consumed, a
\* chunk of another type or with bytes missing raises, and so does a stream
\* that ends before the declared length is consumed; a load that succeeds
\* holds the payloads in read order.
C10_TruncatedStreamRaises ==
    ChunksReached =>
        /\ BuffersInReadOrder
        /\ BadChunkRaises
        /\ (Len(file_obj) - start < DeclaredLength => loaded.status = "raised")
        /\ (loaded.status = "returned" => Consumed)

\* C10 as amended: chunks are read while the declared length is not consumed;
\* a whole chunk header of another type, or one whose payload is shorter than
\* it declares, raises; a stream that ends before a whole chunk header can be
\* read ends the loop without an error, and the load goes on with the
\* buffers read so far; the buffers are the payloads in read order.
C10_ChunkLoop ==
    ChunksReached =>
        /\ BuffersInReadOrder
        /\ BadChunkRaises
        /\ (~Consumed /\ ~HeaderAvailable) =>
              /\ loaded.broke
              /\ loaded.error \notin ChunkErrors
              /\ loaded.error # "truncated"
        /\ Consumed => (~loaded.broke /\ loaded.error \notin ChunkErrors)
        /\ (loaded.status = "returned" => (Consumed \/ ~HeaderAvailable))

\* a stream that ends inside the header of its second chunk was loaded, with
\* the first chunk as its only buffer
C10_Witness ==
    /\ ChunksReached
    /\ loaded.status = "returned"
    /\ loaded.broke
    /\ Len(loaded.buffers) = 1
    /\ Len(loaded.views) = 1
    /\ Len(file_obj) - NextChunk \in 1..7

-----------------------------------------------------------------------------
(* Properties of the materials and the normals of an export, under Spec *)

\* the g-th geometry of the scene was appended whole: no exception left
\* _append_mesh or _append_path
Appended(g) == g \in 1..Len(scene) /\ ~(pc = "raised" /\ g = Len(scene))

\* the g-th geometry is a Trimesh with a TextureVisuals
Textured(g) == scene[g].class = "Trimesh" /\ scene[g].kind = "texture"

\* the material record the primitive of the g-th geometry refers to
MaterialOf(g) == tree.materials[tree.meshes[g].material + 1]

\* the texture slots of a material whose image can be encoded, and those
\* whose image cannot
Encodable(mat) == {k \in TexKeys : mat.tex[k].kind = "pil"}
Failing(mat) == {k \in TexKeys : mat.tex[k].kind \in {"other", "broken"}}

\* the factors a material sets to values that are exported
Factors(mat) ==
    {k \in {"baseColorFactor", "emissiveFactor", "metallicFactor",
            "roughnessFactor"} : mat[k]}

\* the keys of a material record, at either level
RecordKeys(rec) == (DOMAIN rec.top) \cup (DOMAIN rec.pbrMetallicRoughness)

\* the textured meshes among the first n geometries have this many texture
\* slots with an image that can be encoded
RECURSIVE SlotCount(_)
SlotCount(n) ==
    IF n = 0 THEN 0
    ELSE SlotCount(n - 1) +
         (IF Textured(n) THEN Cardinality(Encodable(scene[n].material)) ELSE 0)

\* C13: meshes that share a material share its entries: their primitives
\* refer to the same texture indices, and `images` and `textures` have one
\* entry for every texture slot of every distinct material, however many
\* meshes use it.
C13_SharedMaterialOnce ==
    LET textured == {g \in 1..Len(scene) : Appended(g) /\ Textured(g)}
        slots == {<<scene[g].material, k>> :
                     g \in textured, k \in TexKeys}
        shared == {sl \in slots : sl[1].tex[sl[2]].kind = "pil"}
    IN /\ \A g, h \in textured :
              scene[g].material = scene[h].material
                  => MaterialOf(g) = MaterialOf(h)
       /\ pc # "raised" =>
              /\ Len(tree.images) = Cardinality(shared)
              /\ Len(tree.textures) = Cardinality(shared)

\* C14: in a material record written by _append_material the base colour,
\* metallic and roughness factors and the base colour and metallic-roughness
\* textures are under pbrMetallicRoughness and nowhere else; the emissive
\* factor and the emissive, normal and occlusion textures are at the top.
C14_PbrKeysNested ==
    \A g \in 1..Len(scene) :
        (Appended(g) /\ Textured(g)) =>
            LET rec == MaterialOf(g)
                mat == scene[g].material
                present == Factors(mat) \cup Encodable(mat)
                nested == {"baseColorFactor", "metallicFactor",
                           "roughnessFactor", "baseColorTexture",
                           "metallicRoughnessTexture"}
            IN /\ DOMAIN rec.pbrMetallicRoughness = present \cap nested
               /\ DOMAIN rec.top = present \ nested

\* C15: an image that cannot be accessed or encoded does not end the export:
\* no exception leaves it, the slot is left out of the material record, and
\* images, textures and blobs are added for the other slots only.
C15_ImageFailureNonFatal ==
    /\ pc # "raised"
    /\ \A g \in 1..Len(scene) :
          (Appended(g) /\ Textured(g)) =>
              /\ Failing(scene[g].material) \cap RecordKeys(MaterialOf(g)) = {}
              /\ Encodable(scene[g].material) \subseteq RecordKeys(MaterialOf(g))
    /\ Len(tree.images) = SlotCount(Len(scene))
    /\ Len(tree.textures) = SlotCount(Len(scene))
    /\ Len(buffer_items) = Len(tree.accessors) + SlotCount(Len(scene))

\* the primitive of the g-th geometry has a NORMAL attribute
HasNormal(g) == tree.meshes[g].NORMAL # -1

\* C17 as stated: true always writes the normals of a mesh, false never, and
\* leaving include_normals out writes them exactly when they are in the cache
\* of the mesh.
C17_UnsetFollowsCache ==
    \A g \in 1..Len(scene) :
        (Appended(g) /\ scene[g].class = "Trimesh") =>
            (HasNormal(g) <=>
                \/ passed = "True"
                \/ (passed \in {"unset", "None"} /\ scene[g].cached))

\* C17: include_normals = True writes a NORMAL accessor (VEC3, one row per
\* vertex) for every mesh, False writes none, None writes one exactly for the
\* meshes with vertex normals in their cache; the export functions default to
\* False, so that leaving the argument out writes none.
C17_NormalsFollowArgument ==
    \A g \in 1..Len(scene) :
        (Appended(g) /\ scene[g].class = "Trimesh") =>
            /\ HasNormal(g) <=>
                  \/ passed = "True"
                  \/ (passed = "None" /\ scene[g].cached)
            /\ HasNormal(g) =>
                  LET a == tree.accessors[tree.meshes[g].NORMAL + 1]
                  IN a.type = "VEC3" /\ a.count = scene[g].nv
            /\ passed = "unset" => ~HasNormal(g)

\* a mesh with cached vertex normals was exported without the argument, and
\* has no NORMAL attribute
C17_Witness ==
    /\ pc \in {"glb", "gltf"}
    /\ passed = "unset"
    /\ \E g \in 1..Len(scene) :
          /\ scene[g].class = "Trimesh"
          /\ scene[g].cached
          /\ ~HasNormal(g)

-----------------------------------------------------------------------------
(* Properties of the import of a header, under SpecRead *)

\* the names of the nodes and of the base frame have been set
NamesRead == pc \in {"walk", "done"}

\* the indices of the nodes of the header
NodeIndices == 0..(Len(rb_header.nodes) - 1)

\* C11: the frame names of distinct nodes are different, and the name of the
\* base frame is the name of no node, whether names are absent, repeated,
\* the decimal index of another node, or "world".
C11_FrameNamesUnique ==
    NamesRead =>
        /\ \A i, j \in NodeIndices :
              i # j => names[IntKey(i)] # names[IntKey(j)]
        /\ \A i \in NodeIndices : names[IntKey(i)] # base_frame

\* what the code does with the base frame: it is always "world", because
\* the keys of `names` it is looked up in are node indices
C11_BaseFrameIsWorld ==
    NamesRead => base_frame = "world" /\ names[StrKey("world")] = "world"

\* C12: the matrix of the edge to a node is M . T . R . S, where M is the
\* node's matrix read column by column, T its translation, R the rotation
\* of its quaternion (x, y, z, w), S its scale, each the identity when the
\* field is absent: the upper left block of T . R . S is R with column j
\* multiplied by scale j, and its last column is the translation.
C12_NodeMatrixOrder ==
    \A e \in 1..Len(graph) :
        LET child == rb_header.nodes[graph[e].node + 1]
            M(i, k) == IF Has(child.matrix)
                       THEN child.matrix[1][4 * (k - 1) + i]
                       ELSE IF i = k THEN 1 ELSE 0
            t(k) == IF Has(child.translation) THEN child.translation[1][k] ELSE 0
            s(j) == IF Has(child.scale) THEN child.scale[1][j] ELSE 1
            r == IF Has(child.rotation) THEN child.rotation[1] ELSE <<0, 0, 0, 1>>
            x == r[1]
            y == r[2]
            z == r[3]
            w == r[4]
            n == x * x + y * y + z * z + w * w
            R == IF n = 0
                 THEN <<<<1, 0, 0>>, <<0, 1, 0>>, <<0, 0, 1>>>>
                 ELSE <<<<1 - (2 * (y * y + z * z)) \div n,
                          (2 * (x * y - z * w)) \div n,
                          (2 * (x * z + y * w)) \div n>>,
                        <<(2 * (x * y + z * w)) \div n,
                          1 - (2 * (x * x + z * z)) \div n,
                          (2 * (y * z - x * w)) \div n>>,
                        <<(2 * (x * z - y * w)) \div n,
                          (2 * (y * z + x * w)) \div n,
                          1 - (2 * (x * x + y * y)) \div n>>>>
            B(k, j) == IF k <= 3 /\ j <= 3 THEN R[k][j] * s(j)
                       ELSE IF k <= 3 THEN t(k)
                       ELSE IF j = 4 THEN 1 ELSE 0
        IN \A i, j \in 1..4 :
              graph[e].matrix[i][j] =
                  M(i, 1) * B(1, j) + M(i, 2) * B(2, j)
                    + M(i, 3) * B(3, j) + M(i, 4) * B(4, j)

\* the edge to a node that has a matrix, a translation, a quarter turn about
\* z as its rotation, and a scale
C12_Witness ==
    /\ pc = "done"
    /\ \E e \in 1..Len(graph) :
          LET child == rb_header.nodes[graph[e].node + 1]
          IN /\ Has(child.matrix)
             /\ Has(child.translation)
             /\ child.rotation = Some(<<0, 0, 1, 1>>)
             /\ Has(child.scale)
             /\ graph[e].matrix[1][2] # 0

\* the materials have been parsed
MaterialsParsed == pc \in {"meshes", "names", "walk", "done"}

\* the bytes of the i-th (from 1) image of the header can be had: they are
\* in a view, in the URI, or the resolver has them
Obtainable(i) ==
    LET img == rb_header.images[i]
    IN \/ Has(img.bufferView)
       \/ /\ Has(img.uri)
          /\ IF img.uri[1].base64
             THEN img.uri[1].valid
             ELSE img.uri[1].name \in DOMAIN resolver

\* the bytes of the i-th image, when they can be had
BlobOf(i) ==
    LET img == rb_header.images[i]
    IN IF Has(img.bufferView) THEN rb_views[img.bufferView[1] + 1]
       ELSE IF img.uri[1].base64 THEN img.uri[1].data
       ELSE resolver[img.uri[1].name]

\* the texture slots of the m-th (from 1) material of the header, at either
\* level, with the index of the image each refers to
TextureSlots(m) ==
    LET mat == rb_header.materials[m]
        level(f) == {<<k, rb_header.textures[f[k].index + 1].source>> :
                        k \in {q \in DOMAIN f : f[q].kind = "texture"}}
    IN level(mat.top) \cup
       (IF Has(mat.pbrMetallicRoughness)
        THEN level(mat.pbrMetallicRoughness[1]) ELSE {})

\* C16: an image whose bytes cannot be had or cannot be decoded does not end
\* the load: no exception leaves _parse_materials, every image and material
\* is processed, an image is None exactly when it failed, and every material
\* slot has the image it refers to, None for a failed one.
C16_ImageFailureCaught ==
    /\ pc # "raised"
    /\ MaterialsParsed =>
          /\ Len(images) = Len(rb_header.images)
          /\ Len(materials) = Len(rb_header.materials)
          /\ \A i \in 1..Len(images) :
                images[i] = IF Obtainable(i) /\ CanOpen(BlobOf(i))
                            THEN OpenedImage(BlobOf(i))
                            ELSE NoneImage
          /\ \A m \in 1..Len(materials) :
                \A sl \in TextureSlots(m) :
                    /\ sl[1] \in DOMAIN materials[m]
                    /\ materials[m][sl[1]] = images[sl[2] + 1]

\* what the code does: the load is ended exactly by an image whose bytes
\* cannot be had from its URI, and the rest of C16 holds when it goes on
C16_OnlyDecodingCaught ==
    /\ pc = "raised" =>
          \E i \in 1..Len(rb_header.images) :
              Has(rb_header.images[i].uri) /\ ~Obtainable(i)
    /\ MaterialsParsed =>
          /\ \A i \in 1..Len(rb_header.images) :
                Has(rb_header.images[i].uri) => Obtainable(i)
          /\ \A i \in 1..Len(images) :
                images[i] = IF Obtainable(i) /\ CanOpen(BlobOf(i))
                            THEN OpenedImage(BlobOf(i))
                            ELSE NoneImage
          /\ \A m \in 1..Len(materials) :
                \A sl \in TextureSlots(m) : materials[m][sl[1]] = images[sl[2] + 1]

\* the meshes have been read
MeshesRead == pc \in {"names", "walk", "done"}

\* the triangle primitives of the header, as (mesh index, primitive index)
TrianglePrims ==
    LET all == UNION {{<<i, j>> : j \in 0..(Len(rb_header.meshes[i + 1].primitives) - 1)}
                         : i \in 0..(Len(rb_header.meshes) - 1)}
    IN {ij \in all :
           LET p == rb_header.meshes[ij[1] + 1].primitives[ij[2] + 1]
           IN ~Has(p.mode) \/ p.mode[1] = 4}

\* the name recorded in mesh_prim for a triangle primitive: the names of a
\* mesh are recorded in the order of its triangle primitives
NameOf(ij) ==
    mesh_prim[ij[1] + 1][Cardinality({kl \in TrianglePrims :
                                         kl[1] = ij[1] /\ kl[2] <= ij[2]})]

\* C20: different triangle primitives get different geometry names, the
\* geometries have one entry per triangle primitive, and the name recorded
\* for a primitive is the name of the entry made of that primitive.
C20_GeometryNamesDistinct ==
    MeshesRead =>
        /\ \A ij, kl \in TrianglePrims : ij # kl => NameOf(ij) # NameOf(kl)
        /\ Cardinality(DOMAIN meshes) = Cardinality(TrianglePrims)
        /\ \A ij \in TrianglePrims :
              /\ NameOf(ij) \in DOMAIN meshes
              /\ meshes[NameOf(ij)].vertices
                    = rb_header.meshes[ij[1] + 1].primitives[ij[2] + 1].POSITION

\* what the code does: every triangle primitive has a name recorded, every
\* name is an entry, and an entry is made of the last primitive of its name
C20_LastPrimitiveOfName ==
    MeshesRead =>
        /\ \A i \in 1..Len(mesh_prim) :
              Len(mesh_prim[i]) = Cardinality({kl \in TrianglePrims : kl[1] = i - 1})
        /\ DOMAIN meshes = {NameOf(ij) : ij \in TrianglePrims}
        /\ \A ij \in TrianglePrims :
              (\A kl \in TrianglePrims :
                  NameOf(kl) = NameOf(ij) =>
                      (kl[1] < ij[1] \/ (kl[1] = ij[1] /\ kl[2] <= ij[2])))
              => meshes[NameOf(ij)].vertices
                    = rb_header.meshes[ij[1] + 1].primitives[ij[2] + 1].POSITION

-----------------------------------------------------------------------------
(* Properties of the walk over the nodes, under SpecRead and SpecReadFair *)

\* the roots of the scene that is walked, and the children of a node; the
\* base frame is written -1 where it stands for a parent
Roots == rb_header.scenes[SceneIndex(rb_header) + 1]
ChildrenOf(b) == IF b = -1 THEN Roots ELSE rb_header.nodes[b + 1].children

SetOf(q) == {q[i] : i \in DOMAIN q}

\* the nodes reached from the nodes of S by following `children`
RECURSIVE Closure(_)
Closure(S) ==
    LET T == S \cup UNION {SetOf(ChildrenOf(b)) : b \in S}
    IN IF T = S THEN S ELSE Closure(T)

Reachable == Closure(SetOf(Roots))
Descendants(b) == Closure(SetOf(ChildrenOf(b)))

\* the places where node b is referred to: <<p, i>> when it is the i-th
\* child of the reachable node p, or the i-th root for p = -1
Sites(b) ==
    {pi \in UNION {{<<p, i>> : i \in DOMAIN ChildrenOf(p)}
                      : p \in Reachable \cup {-1}} :
        ChildrenOf(pi[1])[pi[2]] = b}

\* the references from the roots form a forest: every node reached is
\* referred to once
Forest == \A b \in Reachable : Cardinality(Sites(b)) = 1

\* a node that is reached is among its own descendants
Cyclic == \E b \in Reachable : b \in Descendants(b)

\* in a forest: the parent of a node, and its depth below the base frame
ParentOf(b) == (CHOOSE pi \in Sites(b) : TRUE)[1]
RECURSIVE Depth(_)
Depth(b) == IF ParentOf(b) = -1 THEN 0 ELSE 1 + Depth(ParentOf(b))

\* the edges to nodes and the edges to geometries
IsConnectivity(e) == ~Has(graph[e].geometry)
ConnectivityOf(b) == {e \in 1..Len(graph) : IsConnectivity(e) /\ graph[e].node = b}
\* in a forest, when the walk is over: where the edge to node b is
Pos(b) == CHOOSE e \in ConnectivityOf(b) : TRUE

TrianglesOf(b) ==
    LET mesh == rb_header.nodes[b + 1].mesh
        prims == IF Has(mesh) THEN rb_header.meshes[mesh[1] + 1].primitives ELSE <<>>
        tri == {j \in DOMAIN prims : ~Has(prims[j].mode) \/ prims[j].mode[1] = 4}
    IN [t \in 1..Cardinality(tri) |->
           CHOOSE j \in tri : Cardinality({l \in tri : l <= j}) = t]

\* when the walk over a forest is over: one edge to every node reached and
\* to no other, from the frame of its parent; after it one edge per triangle
\* primitive of its mesh, with the geometry of that primitive and the same
\* frame_from and matrix; then the edge to another node, or the end; and
\* only the triangle primitives have a geometry
EdgesOfForest ==
    (pc = "done" /\ Forest) =>
        /\ \A b \in Reachable : Cardinality(ConnectivityOf(b)) = 1
        /\ Len(graph) > 0 => IsConnectivity(1)
        /\ \A e \in 1..Len(graph) :
              IsConnectivity(e) =>
                  LET b == graph[e].node
                      tri == TrianglesOf(b)
                  IN /\ b \in Reachable
                     /\ graph[e].frame_to = names[IntKey(b)]
                     /\ graph[e].frame_from =
                           IF ParentOf(b) = -1 THEN base_frame
                           ELSE names[IntKey(ParentOf(b))]
                     /\ e + Len(tri) <= Len(graph)
                     /\ \A t \in 1..Len(tri) :
                           /\ graph[e + t].geometry =
                                 Some(GeometryName(rb_header,
                                        rb_header.nodes[b + 1].mesh[1], tri[t] - 1))
                           /\ graph[e + t].frame_from = graph[e].frame_from
                           /\ graph[e + t].matrix = graph[e].matrix
                     /\ e + Len(tri) < Len(graph) => IsConnectivity(e + Len(tri) + 1)
        /\ DOMAIN meshes = {GeometryName(rb_header, ij[1], ij[2]) : ij \in TrianglePrims}

\* C19: over a forest the loop ends, with one edge per node reached, each
\* followed by one edge per triangle primitive of its mesh with the same
\* frame_from and matrix, and none for other primitives; over references
\* with a cycle the loop does not end.
C19_WalkOfForest ==
    /\ [](EdgesOfForest)
    /\ [](Cyclic => pc # "done")
    /\ ((pc = "walk" /\ Forest) ~> (pc = "done"))

\* the walk over a forest of three nodes, each with a mesh, one of which
\* has a line primitive between two triangle primitives, is over
C19_Witness ==
    /\ pc = "done"
    /\ Forest
    /\ Cardinality(Reachable) >= 3
    /\ \A b \in Reachable : Has(rb_header.nodes[b + 1].mesh)
    /\ \E b \in Reachable :
          /\ Len(TrianglesOf(b)) = 2
          /\ Len(rb_header.meshes[rb_header.nodes[b + 1].mesh[1] + 1].primitives) = 3
    /\ Len(graph) >= 6

====
